---- MODULE Spec2Model ----
(***************************************************************************)
(* Encore: private event tickets (commitment + nullifier) with a resale    *)
(* marketplace (listing + escrow).  One action per instruction handler of  *)
(* programs/encore/src/instructions; every handler runs as one atomic      *)
(* ledger transaction, and a handler that returns Err leaves every account *)
(* as it was (the ledger rolls the transaction back): a failed call is a   *)
(* step that changes nothing.  For every handler h, h_result gives the     *)
(* outcome of a call (Ok or the error) in the current state, with the      *)
(* checks in the order the handler and its account constraints make them.  *)
(*                                                                         *)
(* Hashes are modelled as injective constructors: the commitment           *)
(* SHA256(pubkey || secret) is the pair <<pubkey, secret>>, a derived      *)
(* address is the tuple of its seeds.  Strings are modelled by their       *)
(* length, the only thing the handlers read of them.  The write-only       *)
(* fields created_at and bump are left out.                                *)
(***************************************************************************)
EXTENDS Integers, Naturals, Sequences, FiniteSets, TLC

VARIABLES
    events,      \* EventConfig accounts, keyed by authority (PDA [EVENT_SEED, authority])
    tickets,     \* PrivateTicket records of the state tree, keyed by ticket address seed
    nullifiers,  \* Nullifier records of the state tree, keyed by hash(secret)
    counters,    \* IdentityCounter records, keyed by <<event, buyer>>
    listings,    \* Listing accounts, keyed by <<seller, ticket_commitment>>
    escrow,      \* lamports of the escrow PDA of every listing address
    balance,     \* lamports of every wallet
    minted,      \* log of the TicketMinted events: <<event, ticket_id>> -> purchase_price
    now,         \* Clock::get()?.unix_timestamp
    light_index  \* the rule of the deployed Light system program for assigned addresses

vars == <<events, tickets, nullifiers, counters, listings, escrow, balance, minted, now,
          light_index>>
ledger == <<events, tickets, nullifiers, counters, listings, escrow, balance, minted>>

----------------------------------------------------------------------------
(* Program constants: constants.rs *)
MIN_RESALE_CAP_BPS == 10000
MAX_RESALE_CAP_BPS == 100000
MAX_TICKET_SUPPLY == 1000000
CLAIM_TIMEOUT_SECONDS == 86400
MAX_EVENT_LOCATION_LEN == 64
MAX_EVENT_DESCRIPTION_LEN == 200
MAX_EVENT_NAME_LEN == 64

(* Bounds of the model *)
MaxSeed == 2          \* ticket address seeds are 1..MaxSeed
MaxNow == 86401       \* the last instant of the clock
MaxSupplyInput == 2   \* the largest valid max_supply offered to create_event
MaxPrice == 2         \* the largest purchase price / listing price offered
InitBalance == 3      \* lamports every wallet starts with
ListingRent == 1      \* rent-exempt deposit of a listing account
EventRent == 1        \* rent-exempt deposit of an event account

Keys == {"k1", "k2"}
Secrets == {"s1", "s2"}
Seeds == 1..MaxSeed
(* Option<T>: None is the empty sequence, Some(x) the one-element sequence *)
None == <<>>
Some(x) == <<x>>
Unwrap(o) == o[1]
Option(S) == {None} \cup {Some(x) : x \in S}

(* hash(owner_pubkey || secret): ticket_transfer.rs:72-75 *)
Commitment(key, secret) == <<key, secret>>
Commitments == {Commitment(k, s) : k \in Keys, s \in Secrets}
(* hash(seller_secret), the seed of the nullifier address *)
NullifierSeed(secret) == <<"nullifier", secret>>
(* the secret whose hash addresses the nullifier that spends a commitment *)
SecretOf(c) == c[2]
ListingKeys == Keys \X Commitments

ListingStatus == {"Active", "Claimed", "Completed", "Cancelled"}
AddressTrees == {"V2", "V1", "Missing"}

Ok == "Ok"
(* the error a handler propagates when the Light system program rejects   *)
(* the batch of its CPI (an input record missing, a new address occupied)  *)
TreeRejected == "LightSystemProgramError"

IsSome(o) == o # None

----------------------------------------------------------------------------
(* State helpers: state/event_config.rs *)

(* Widths of the unsigned integers.  x < 2^32 and x < 2^64 for a natural   *)
(* x, written with divisions by 2^16 so that no numeral beyond the         *)
(* integers of the model checker appears.                                  *)
FitsU32(x) == (x \div 65536) \div 65536 = 0
FitsU64(x) == (((x \div 65536) \div 65536) \div 65536) \div 65536 = 0

(* u32::checked_add and u64::checked_mul: None when the result does not    *)
(* fit the width                                                           *)
checked_add(a, b) == IF FitsU32(a + b) THEN Some(a + b) ELSE None
checked_mul(a, b) == IF FitsU64(a * b) THEN Some(a * b) ELSE None

(* EventConfig::can_mint: tickets_minted + amount <= max_supply, false     *)
(* when the sum overflows u32                                              *)
can_mint_OffByOne(ev, amount) == ev.tickets_minted <= ev.max_supply
can_mint_Strict(ev, amount) == ev.tickets_minted + amount < ev.max_supply
can_mint(ev, amount) ==
    LET total == checked_add(ev.tickets_minted, amount)
    IN  IF total = None THEN FALSE ELSE Unwrap(total) <= ev.max_supply

(* EventConfig::calculate_max_resale_price: original * cap_bps / 10000,    *)
(* zero when the product overflows u64                                     *)
calculate_max_resale_price(ev, original_price) ==
    LET product == checked_mul(original_price, ev.resale_cap_bps)
    IN  IF product = None THEN 0 ELSE Unwrap(product) \div 10000

(* EventConfig::is_valid_resale_price: proposed <= original * cap / 10000  *)
(* with checked u64 arithmetic: an overflowing product gives None and the  *)
(* price is not valid.  The product overflows only for an original price   *)
(* above 2^64 / resale_cap_bps, which is beyond the prices the scenarios   *)
(* offer.                                                                  *)
is_valid_resale_price(ev, original_price, proposed_price) ==
    LET product == checked_mul(original_price, ev.resale_cap_bps)
        max_price == IF product = None THEN None
                     ELSE Some(Unwrap(product) \div 10000)
    IN  IF max_price = None THEN FALSE ELSE proposed_price <= Unwrap(max_price)

(* The address tree check every state-tree handler makes before its CPI:   *)
(* get_tree_pubkey fails, or the tree is not ADDRESS_TREE_V2.              *)
address_tree_result(tree) ==
    IF tree = "Missing" THEN "InvalidAddressTree"
    ELSE IF tree # "V2" THEN "InvalidAccountData"
    ELSE Ok

----------------------------------------------------------------------------
(* Event registry *)

(* create_event: `init` of the PDA [EVENT_SEED, authority] with            *)
(* payer = authority runs before the handler: the system program rejects   *)
(* an account that exists, then the authority pays the rent of the new     *)
(* account; then the handler's require! chain.                             *)

create_event_result_NotInFuture(authority, max_supply, resale_cap_bps, name_len, location_len, description_len, event_timestamp) ==
    IF authority \in DOMAIN events THEN "AccountAlreadyInUse"
    ELSE IF balance[authority] < EventRent THEN "InsufficientFunds"
    ELSE IF ~(max_supply > 0) THEN "InvalidTicketSupply"
    ELSE IF ~(max_supply <= MAX_TICKET_SUPPLY) THEN "TicketSupplyTooLarge"
    ELSE IF ~(resale_cap_bps >= MIN_RESALE_CAP_BPS) THEN "ResaleCapTooLow"
    ELSE IF ~(resale_cap_bps <= MAX_RESALE_CAP_BPS) THEN "ResaleCapTooHigh"
    ELSE IF name_len = 0 THEN "EventNameEmpty"
    ELSE IF ~(name_len <= MAX_EVENT_NAME_LEN) THEN "EventNameTooLong"
    ELSE IF ~(location_len <= MAX_EVENT_LOCATION_LEN) THEN "EventLocationTooLong"
    ELSE IF ~(description_len <= MAX_EVENT_DESCRIPTION_LEN) THEN "EventDescriptionTooLong"
    ELSE IF ~(event_timestamp >= now) THEN "EventTimestampInPast"
    ELSE Ok
create_event_result_InitIfNeeded(authority, max_supply, resale_cap_bps, name_len, location_len, description_len, event_timestamp) ==
    IF balance[authority] < EventRent THEN "InsufficientFunds"
    ELSE IF ~(max_supply > 0) THEN "InvalidTicketSupply"
    ELSE IF ~(max_supply <= MAX_TICKET_SUPPLY) THEN "TicketSupplyTooLarge"
    ELSE IF ~(resale_cap_bps >= MIN_RESALE_CAP_BPS) THEN "ResaleCapTooLow"
    ELSE IF ~(resale_cap_bps <= MAX_RESALE_CAP_BPS) THEN "ResaleCapTooHigh"
    ELSE IF name_len = 0 THEN "EventNameEmpty"
    ELSE IF ~(name_len <= MAX_EVENT_NAME_LEN) THEN "EventNameTooLong"
    ELSE IF ~(location_len <= MAX_EVENT_LOCATION_LEN) THEN "EventLocationTooLong"
    ELSE IF ~(description_len <= MAX_EVENT_DESCRIPTION_LEN) THEN "EventDescriptionTooLong"
    ELSE IF ~(event_timestamp > now) THEN "EventTimestampInPast"
    ELSE Ok
create_event_result(authority, max_supply, resale_cap_bps, name_len, location_len, description_len, event_timestamp) ==
    IF authority \in DOMAIN events THEN "AccountAlreadyInUse"
    ELSE IF balance[authority] < EventRent THEN "InsufficientFunds"
    ELSE IF ~(max_supply > 0) THEN "InvalidTicketSupply"
    ELSE IF ~(max_supply <= MAX_TICKET_SUPPLY) THEN "TicketSupplyTooLarge"
    ELSE IF ~(resale_cap_bps >= MIN_RESALE_CAP_BPS) THEN "ResaleCapTooLow"
    ELSE IF ~(resale_cap_bps <= MAX_RESALE_CAP_BPS) THEN "ResaleCapTooHigh"
    ELSE IF name_len = 0 THEN "EventNameEmpty"
    ELSE IF ~(name_len <= MAX_EVENT_NAME_LEN) THEN "EventNameTooLong"
    ELSE IF ~(location_len <= MAX_EVENT_LOCATION_LEN) THEN "EventLocationTooLong"
    ELSE IF ~(description_len <= MAX_EVENT_DESCRIPTION_LEN) THEN "EventDescriptionTooLong"
    ELSE IF ~(event_timestamp > now) THEN "EventTimestampInPast"
    ELSE Ok

create_event(authority, max_supply, resale_cap_bps, name_len, location_len, description_len, max_tickets_per_person, event_timestamp) ==
    LET res == create_event_result(authority, max_supply, resale_cap_bps, name_len,
                                   location_len, description_len, event_timestamp)
    IN  /\ IF res = Ok
           THEN /\ events' = (authority :> [authority |-> authority,
                                         max_supply |-> max_supply,
                                         tickets_minted |-> 0,
                                         resale_cap_bps |-> resale_cap_bps,
                                         event_name |-> name_len,
                                         event_location |-> location_len,
                                         event_description |-> description_len,
                                         max_tickets_per_person |-> max_tickets_per_person,
                                         event_timestamp |-> event_timestamp,
                                         updated_at |-> 0]) @@ events
                /\ balance' = [balance EXCEPT ![authority] = @ - EventRent]
           ELSE UNCHANGED <<events, balance>>
        /\ UNCHANGED <<tickets, nullifiers, counters, listings, escrow, minted, now,
                       light_index>>

(* update_event: the event account is the PDA of the signer's key          *)
(* (seeds = [EVENT_SEED, authority]), checked before has_one.              *)
update_event_result_AnySigner(authority, event_key, resale_cap_bps) ==
    IF event_key \notin DOMAIN events THEN "AccountNotInitialized"
    ELSE IF IsSome(resale_cap_bps) /\ ~(Unwrap(resale_cap_bps) >= MIN_RESALE_CAP_BPS)
         THEN "ResaleCapTooLow"
    ELSE IF IsSome(resale_cap_bps) /\ ~(Unwrap(resale_cap_bps) <= MAX_RESALE_CAP_BPS)
         THEN "ResaleCapTooHigh"
    ELSE Ok
update_event_result_NoUpperBound(authority, event_key, resale_cap_bps) ==
    IF event_key \notin DOMAIN events THEN "AccountNotInitialized"
    ELSE IF event_key # authority THEN "ConstraintSeeds"
    ELSE IF events[event_key].authority # authority THEN "Unauthorized"
    ELSE IF IsSome(resale_cap_bps) /\ ~(Unwrap(resale_cap_bps) >= MIN_RESALE_CAP_BPS)
         THEN "ResaleCapTooLow"
    ELSE Ok
update_event_result(authority, event_key, resale_cap_bps) ==
    IF event_key \notin DOMAIN events THEN "AccountNotInitialized"
    ELSE IF event_key # authority THEN "ConstraintSeeds"
    ELSE IF events[event_key].authority # authority THEN "Unauthorized"
    ELSE IF IsSome(resale_cap_bps) /\ ~(Unwrap(resale_cap_bps) >= MIN_RESALE_CAP_BPS)
         THEN "ResaleCapTooLow"
    ELSE IF IsSome(resale_cap_bps) /\ ~(Unwrap(resale_cap_bps) <= MAX_RESALE_CAP_BPS)
         THEN "ResaleCapTooHigh"
    ELSE Ok

update_event(authority, event_key, resale_cap_bps) ==
    LET res == update_event_result(authority, event_key, resale_cap_bps)
    IN  /\ IF res = Ok
           THEN events' = [events EXCEPT
                    ![event_key].resale_cap_bps =
                        IF IsSome(resale_cap_bps) THEN Unwrap(resale_cap_bps) ELSE @,
                    ![event_key].updated_at = now]
           ELSE UNCHANGED events
        /\ UNCHANGED <<tickets, nullifiers, counters, listings, escrow, balance, minted, now,
                       light_index>>

----------------------------------------------------------------------------
(* Ticket protocol: mint *)

(* The Light system program is called by the handlers and is not part of   *)
(* the repository.  One of its rules is not fixed by anything the          *)
(* repository contains: whether a new address that the caller assigns to   *)
(* the output record at an index must be the address of that record.       *)
(* Both outcomes are kept: the rule is chosen when the ledger starts and   *)
(* never changes.                                                          *)
LightIndexRules == {"strict", "unchecked"}

(* The Light system program CPI of mint_ticket.  The handler passes the     *)
(* output records <<identity counter, ticket>> (ticket_mint.rs:171-173) and *)
(* the new addresses; the system program accepts the batch when            *)
(*   - every new address is unused: the ticket address always, and the     *)
(*     identity address when identity_address_tree_info is given           *)
(*     (ticket_mint.rs:177-190);                                           *)
(*   - every input record exists with the stated contents: the counter     *)
(*     built from current_tickets_minted when identity_account_meta is     *)
(*     given (ticket_mint.rs:95-117);                                      *)
(*   - a record created with new_init stands at a new address: the counter *)
(*     of the first-mint path (ticket_mint.rs:132-136) needs the identity  *)
(*     address among the new addresses;                                    *)
(*   - under the strict rule, every new address is the address of the      *)
(*     output it is assigned to.  With identity_address_tree_info the      *)
(*     identity address goes to output 0 and the ticket address to output  *)
(*     1 (ticket_mint.rs:177-183); without it the ticket address goes to   *)
(*     output 0, which is the identity counter (ticket_mint.rs:184-190),   *)
(*     so the later mint of a buyer is accepted only when the rule is not  *)
(*     checked.                                                            *)
mint_cpi_ok(buyer, event_key, seed, identity_tree, identity_meta, current) ==
    /\ seed \notin DOMAIN tickets
    /\ identity_tree => <<event_key, buyer>> \notin DOMAIN counters
    /\ identity_meta => /\ <<event_key, buyer>> \in DOMAIN counters
                        /\ Some(counters[<<event_key, buyer>>]) = current
    /\ ~identity_meta => identity_tree
    /\ light_index = "strict" => identity_tree

mint_ticket_result_NoPersonLimit(buyer, event_key, tree, purchase_price, seed, identity_tree, identity_meta, current) ==
    IF event_key \notin DOMAIN events THEN "AccountNotInitialized"
    ELSE IF ~(purchase_price > 0) THEN "InvalidPurchasePrice"
    ELSE IF ~can_mint(events[event_key], 1) THEN "MaxSupplyReached"
    ELSE IF address_tree_result(tree) # Ok THEN address_tree_result(tree)
    ELSE IF identity_meta /\ ~IsSome(current) THEN "InvalidInstructionData"
    ELSE IF ~mint_cpi_ok(buyer, event_key, seed, identity_tree, identity_meta, current)
         THEN TreeRejected
    ELSE Ok
mint_ticket_result(buyer, event_key, tree, purchase_price, seed, identity_tree, identity_meta, current) ==
    IF event_key \notin DOMAIN events THEN "AccountNotInitialized"
    ELSE IF ~(purchase_price > 0) THEN "InvalidPurchasePrice"
    ELSE IF ~can_mint(events[event_key], 1) THEN "MaxSupplyReached"
    ELSE IF address_tree_result(tree) # Ok THEN address_tree_result(tree)
    ELSE IF identity_meta /\ ~IsSome(current) THEN "InvalidInstructionData"
    ELSE IF identity_meta /\ ~(Unwrap(current) < events[event_key].max_tickets_per_person)
         THEN "MaxTicketsPerPersonReached"
    ELSE IF ~identity_meta /\ ~(events[event_key].max_tickets_per_person >= 1)
         THEN "MaxTicketsPerPersonReached"
    ELSE IF ~mint_cpi_ok(buyer, event_key, seed, identity_tree, identity_meta, current)
         THEN TreeRejected
    ELSE Ok

mint_ticket_StaleId(buyer, event_key, tree, owner, purchase_price, seed, identity_tree, identity_meta, current) ==
    LET res == mint_ticket_result(buyer, event_key, tree, purchase_price, seed,
                                  identity_tree, identity_meta, current)
        ticket_id == events[event_key].tickets_minted
    IN  /\ IF res = Ok
           THEN /\ tickets' = (seed :> [event_config |-> event_key,
                                        ticket_id |-> ticket_id,
                                        owner_commitment |-> owner,
                                        original_price |-> purchase_price]) @@ tickets
                /\ counters' = (<<event_key, buyer>> :>
                                    (IF identity_meta THEN Unwrap(current) + 1 ELSE 1)) @@ counters
                /\ events' = [events EXCEPT ![event_key].tickets_minted = ticket_id + 1]
                /\ minted' = (<<event_key, ticket_id>> :> purchase_price) @@ minted
           ELSE UNCHANGED <<tickets, counters, events, minted>>
        /\ UNCHANGED <<nullifiers, listings, escrow, balance, now,
                       light_index>>
mint_ticket(buyer, event_key, tree, owner, purchase_price, seed, identity_tree, identity_meta, current) ==
    LET res == mint_ticket_result(buyer, event_key, tree, purchase_price, seed,
                                  identity_tree, identity_meta, current)
        ticket_id == events[event_key].tickets_minted + 1
    IN  /\ IF res = Ok
           THEN /\ tickets' = (seed :> [event_config |-> event_key,
                                        ticket_id |-> ticket_id,
                                        owner_commitment |-> owner,
                                        original_price |-> purchase_price]) @@ tickets
                /\ counters' = (<<event_key, buyer>> :>
                                    (IF identity_meta THEN Unwrap(current) + 1 ELSE 1)) @@ counters
                /\ events' = [events EXCEPT ![event_key].tickets_minted = ticket_id]
                /\ minted' = (<<event_key, ticket_id>> :> purchase_price) @@ minted
           ELSE UNCHANGED <<tickets, counters, events, minted>>
        /\ UNCHANGED <<nullifiers, listings, escrow, balance, now,
                       light_index>>

----------------------------------------------------------------------------
(* Ticket protocol: transfer *)

(* The CPI of transfer_ticket and complete_sale: CREATE nullifier and      *)
(* CREATE new ticket; both addresses must be unused.  No input record is   *)
(* passed to the proof.                                                    *)
create_nullifier_and_ticket_ok(seller_secret, seed) ==
    /\ NullifierSeed(seller_secret) \notin nullifiers
    /\ seed \notin DOMAIN tickets

transfer_ticket_result_StrictCap(seller, event_key, tree, current_ticket_id, current_original_price, seller_secret, seed, resale_price) ==
    IF event_key \notin DOMAIN events THEN "AccountNotInitialized"
    ELSE IF address_tree_result(tree) # Ok THEN address_tree_result(tree)
    ELSE IF IsSome(resale_price) /\
            ~(Unwrap(resale_price) < calculate_max_resale_price(events[event_key],
                                                        current_original_price))
         THEN "ExceedsResaleCap"
    ELSE IF ~create_nullifier_and_ticket_ok(seller_secret, seed)
         THEN TreeRejected
    ELSE Ok
transfer_ticket_result(seller, event_key, tree, current_ticket_id, current_original_price, seller_secret, seed, resale_price) ==
    IF event_key \notin DOMAIN events THEN "AccountNotInitialized"
    ELSE IF address_tree_result(tree) # Ok THEN address_tree_result(tree)
    ELSE IF IsSome(resale_price) /\
            ~(Unwrap(resale_price) <= calculate_max_resale_price(events[event_key],
                                                         current_original_price))
         THEN "ExceedsResaleCap"
    ELSE IF ~create_nullifier_and_ticket_ok(seller_secret, seed)
         THEN TreeRejected
    ELSE Ok

transfer_ticket_NoNullifierWrite(seller, event_key, tree, current_ticket_id, current_original_price, seller_secret, new_owner_commitment, seed, resale_price) ==
    /\ transfer_ticket_result(seller, event_key, tree, current_ticket_id,
                              current_original_price, seller_secret, seed,
                              resale_price) = Ok
    /\ tickets' = (seed :> [event_config |-> event_key,
                            ticket_id |-> current_ticket_id,
                            owner_commitment |-> new_owner_commitment,
                            original_price |-> current_original_price]) @@ tickets
    /\ UNCHANGED <<nullifiers, events, counters, listings, escrow, balance, minted, now,
                   light_index>>
transfer_ticket(seller, event_key, tree, current_ticket_id, current_original_price, seller_secret, new_owner_commitment, seed, resale_price) ==
    LET res == transfer_ticket_result(seller, event_key, tree, current_ticket_id,
                                      current_original_price, seller_secret, seed,
                                      resale_price)
    IN  /\ IF res = Ok
           THEN /\ nullifiers' = nullifiers \cup {NullifierSeed(seller_secret)}
                /\ tickets' = (seed :> [event_config |-> event_key,
                                        ticket_id |-> current_ticket_id,
                                        owner_commitment |-> new_owner_commitment,
                                        original_price |-> current_original_price]) @@ tickets
           ELSE UNCHANGED <<tickets, nullifiers>>
        /\ UNCHANGED <<events, counters, listings, escrow, balance, minted, now,
                       light_index>>

----------------------------------------------------------------------------
(* Marketplace *)

(* create_listing: `init` of the PDA [LISTING_SEED, seller, ticket_commitment] *)
(* (the seller pays the rent), then the handler.                              *)
create_listing_result(seller, ticket_commitment, price_lamports) ==
    IF <<seller, ticket_commitment>> \in DOMAIN listings THEN "AccountAlreadyInUse"
    ELSE IF balance[seller] < ListingRent THEN "InsufficientFunds"
    ELSE IF ~(price_lamports > 0) THEN "InvalidPrice"
    ELSE Ok

create_listing(seller, ticket_commitment, encrypted_secret, price_lamports, event_config, ticket_id) ==
    LET res == create_listing_result(seller, ticket_commitment, price_lamports)
    IN  /\ IF res = Ok
           THEN /\ listings' = (<<seller, ticket_commitment>> :>
                                   [seller |-> seller,
                                    ticket_commitment |-> ticket_commitment,
                                    encrypted_secret |-> encrypted_secret,
                                    price_lamports |-> price_lamports,
                                    event_config |-> event_config,
                                    ticket_id |-> ticket_id,
                                    buyer |-> None,
                                    buyer_commitment |-> None,
                                    claimed_at |-> None,
                                    status |-> "Active"]) @@ listings
                /\ balance' = [balance EXCEPT ![seller] = @ - ListingRent]
           ELSE UNCHANGED <<listings, balance>>
        /\ UNCHANGED <<events, tickets, nullifiers, counters, escrow, minted, now,
                       light_index>>

claim_listing_result_AnyStatus(buyer, l) ==
    IF l \notin DOMAIN listings THEN "AccountNotInitialized"
    ELSE IF balance[buyer] < listings[l].price_lamports THEN "InsufficientFunds"
    ELSE Ok
claim_listing_result(buyer, l) ==
    IF l \notin DOMAIN listings THEN "AccountNotInitialized"
    ELSE IF ~(listings[l].status = "Active") THEN "ListingNotActive"
    ELSE IF balance[buyer] < listings[l].price_lamports THEN "InsufficientFunds"
    ELSE Ok

claim_listing_NoTimestamp(buyer, l, buyer_commitment) ==
    LET res == claim_listing_result(buyer, l)
    IN  /\ IF res = Ok
           THEN /\ balance' = [balance EXCEPT ![buyer] = @ - listings[l].price_lamports]
                /\ escrow' = [escrow EXCEPT ![l] = @ + listings[l].price_lamports]
                /\ listings' = [listings EXCEPT
                        ![l].buyer = Some(buyer),
                        ![l].buyer_commitment = Some(buyer_commitment),
                        ![l].status = "Claimed"]
           ELSE UNCHANGED <<balance, escrow, listings>>
        /\ UNCHANGED <<events, tickets, nullifiers, counters, minted, now,
                       light_index>>
claim_listing(buyer, l, buyer_commitment) ==
    LET res == claim_listing_result(buyer, l)
    IN  /\ IF res = Ok
           THEN /\ balance' = [balance EXCEPT ![buyer] = @ - listings[l].price_lamports]
                /\ escrow' = [escrow EXCEPT ![l] = @ + listings[l].price_lamports]
                /\ listings' = [listings EXCEPT
                        ![l].buyer = Some(buyer),
                        ![l].buyer_commitment = Some(buyer_commitment),
                        ![l].claimed_at = Some(now),
                        ![l].status = "Claimed"]
           ELSE UNCHANGED <<balance, escrow, listings>>
        /\ UNCHANGED <<events, tickets, nullifiers, counters, minted, now,
                       light_index>>

(* The reset every un-claim path ends with *)
ResetToActive_KeepsBuyer(l) == [listings EXCEPT ![l].status = "Active"]
ResetToActive(l) ==
    [listings EXCEPT ![l].status = "Active",
                     ![l].buyer = None,
                     ![l].buyer_commitment = None,
                     ![l].claimed_at = None]

cancel_claim_result_AnySigner(buyer, l) ==
    IF l \notin DOMAIN listings THEN "AccountNotInitialized"
    ELSE IF ~(listings[l].status = "Claimed") THEN "ListingNotClaimed"
    ELSE Ok
cancel_claim_result(buyer, l) ==
    IF l \notin DOMAIN listings THEN "AccountNotInitialized"
    ELSE IF ~(listings[l].status = "Claimed") THEN "ListingNotClaimed"
    ELSE IF ~(listings[l].buyer = Some(buyer)) THEN "NotBuyer"
    ELSE Ok

cancel_claim(buyer, l) ==
    LET res == cancel_claim_result(buyer, l)
    IN  /\ IF res = Ok
           THEN /\ balance' = [balance EXCEPT ![buyer] = @ + escrow[l]]
                /\ escrow' = [escrow EXCEPT ![l] = 0]
                /\ listings' = ResetToActive(l)
           ELSE UNCHANGED <<balance, escrow, listings>>
        /\ UNCHANGED <<events, tickets, nullifiers, counters, minted, now,
                       light_index>>

(* seller_cancel_claim: the account constraints (NotSeller on the listing, *)
(* NotBuyer on the refund account) are checked before the handler runs.    *)
(* The handler is in listing_seller_cancel_claim.rs; lib.rs has no entry   *)
(* for it, so only the scenario SpecSurface offers it.                     *)
seller_cancel_claim_result(seller, l, buyer) ==
    IF l \notin DOMAIN listings THEN "AccountNotInitialized"
    ELSE IF ~(listings[l].seller = seller) THEN "NotSeller"
    ELSE IF ~(Some(buyer) = listings[l].buyer) THEN "NotBuyer"
    ELSE IF ~(listings[l].status = "Claimed") THEN "ListingNotClaimed"
    ELSE Ok

seller_cancel_claim_KeepsEscrow(seller, l, buyer) ==
    LET res == seller_cancel_claim_result(seller, l, buyer)
    IN  /\ IF res = Ok
           THEN /\ balance' = [balance EXCEPT ![buyer] = @ + escrow[l]]
                /\ escrow' = escrow
                /\ listings' = ResetToActive(l)
           ELSE UNCHANGED <<balance, escrow, listings>>
        /\ UNCHANGED <<events, tickets, nullifiers, counters, minted, now,
                       light_index>>
seller_cancel_claim(seller, l, buyer) ==
    LET res == seller_cancel_claim_result(seller, l, buyer)
    IN  /\ IF res = Ok
           THEN /\ balance' = [balance EXCEPT ![buyer] = @ + escrow[l]]
                /\ escrow' = [escrow EXCEPT ![l] = 0]
                /\ listings' = ResetToActive(l)
           ELSE UNCHANGED <<balance, escrow, listings>>
        /\ UNCHANGED <<events, tickets, nullifiers, counters, minted, now,
                       light_index>>

(* release_claim: no escrow account is passed and no lamports move *)
release_claim_result_NonStrict(seller, l) ==
    IF l \notin DOMAIN listings THEN "AccountNotInitialized"
    ELSE IF ~(listings[l].status = "Claimed") THEN "ListingNotClaimed"
    ELSE IF ~(listings[l].seller = seller) THEN "NotSeller"
    ELSE IF ~(now >= Unwrap(listings[l].claimed_at) + CLAIM_TIMEOUT_SECONDS)
         THEN "ClaimTimeoutNotReached"
    ELSE Ok
release_claim_result(seller, l) ==
    IF l \notin DOMAIN listings THEN "AccountNotInitialized"
    ELSE IF ~(listings[l].status = "Claimed") THEN "ListingNotClaimed"
    ELSE IF ~(listings[l].seller = seller) THEN "NotSeller"
    ELSE IF ~IsSome(listings[l].claimed_at) THEN "ListingNotClaimed"
    ELSE IF ~(now > Unwrap(listings[l].claimed_at) + CLAIM_TIMEOUT_SECONDS)
         THEN "ClaimTimeoutNotReached"
    ELSE Ok

release_claim(seller, l) ==
    LET res == release_claim_result(seller, l)
    IN  /\ IF res = Ok
           THEN listings' = ResetToActive(l)
           ELSE UNCHANGED listings
        /\ UNCHANGED <<events, tickets, nullifiers, counters, escrow, balance, minted, now,
                       light_index>>

complete_sale_result_NoOwnerCheck(seller, l, tree, seed, seller_secret) ==
    IF l \notin DOMAIN listings THEN "AccountNotInitialized"
    ELSE IF ~(listings[l].status = "Claimed") THEN "ListingNotClaimed"
    ELSE IF ~IsSome(listings[l].buyer_commitment) THEN "ListingNotClaimed"
    ELSE IF address_tree_result(tree) # Ok THEN address_tree_result(tree)
    ELSE IF ~create_nullifier_and_ticket_ok(seller_secret, seed)
         THEN TreeRejected
    ELSE Ok
complete_sale_result_NoCpiCheck(seller, l, tree, seed, seller_secret) ==
    IF l \notin DOMAIN listings THEN "AccountNotInitialized"
    ELSE IF ~(listings[l].status = "Claimed") THEN "ListingNotClaimed"
    ELSE IF ~(Commitment(seller, seller_secret) = listings[l].ticket_commitment)
         THEN "NotTicketOwner"
    ELSE IF ~IsSome(listings[l].buyer_commitment) THEN "ListingNotClaimed"
    ELSE IF address_tree_result(tree) # Ok THEN address_tree_result(tree)
    ELSE Ok
complete_sale_result(seller, l, tree, seed, seller_secret) ==
    IF l \notin DOMAIN listings THEN "AccountNotInitialized"
    ELSE IF ~(listings[l].status = "Claimed") THEN "ListingNotClaimed"
    ELSE IF ~(Commitment(seller, seller_secret) = listings[l].ticket_commitment)
         THEN "NotTicketOwner"
    ELSE IF ~IsSome(listings[l].buyer_commitment) THEN "ListingNotClaimed"
    ELSE IF address_tree_result(tree) # Ok THEN address_tree_result(tree)
    ELSE IF ~create_nullifier_and_ticket_ok(seller_secret, seed)
         THEN TreeRejected
    ELSE Ok

complete_sale(seller, l, tree, seed, seller_secret) ==
    LET res == complete_sale_result(seller, l, tree, seed, seller_secret)
    IN  /\ IF res = Ok
           THEN /\ nullifiers' = nullifiers \cup {NullifierSeed(seller_secret)}
                /\ tickets' = (seed :>
                        [event_config |-> listings[l].event_config,
                         ticket_id |-> listings[l].ticket_id,
                         owner_commitment |-> Unwrap(listings[l].buyer_commitment),
                         original_price |-> listings[l].price_lamports]) @@ tickets
                /\ balance' = [balance EXCEPT ![seller] = @ + escrow[l]]
                /\ escrow' = [escrow EXCEPT ![l] = 0]
                /\ listings' = [listings EXCEPT ![l].status = "Completed"]
           ELSE UNCHANGED <<nullifiers, tickets, balance, escrow, listings>>
        /\ UNCHANGED <<events, counters, minted, now, light_index>>

(* Anchor's `close = seller`: the account is removed and its lamports go   *)
(* to the seller account when the handler returns Ok.                      *)
CloseAccount(l) == [k \in DOMAIN listings \ {l} |-> listings[k]]

cancel_listing_result_AnyStatus(seller, l) ==
    IF l \notin DOMAIN listings THEN "AccountNotInitialized"
    ELSE IF ~(listings[l].seller = seller) THEN "NotSeller"
    ELSE Ok
cancel_listing_result_AnySigner(seller, l) ==
    IF l \notin DOMAIN listings THEN "AccountNotInitialized"
    ELSE IF ~(listings[l].status = "Active") THEN "ListingNotActive"
    ELSE Ok
cancel_listing_result(seller, l) ==
    IF l \notin DOMAIN listings THEN "AccountNotInitialized"
    ELSE IF ~(listings[l].status = "Active") THEN "ListingNotActive"
    ELSE IF ~(listings[l].seller = seller) THEN "NotSeller"
    ELSE Ok

cancel_listing_NoRefund(seller, l) ==
    LET res == cancel_listing_result(seller, l)
    IN  /\ IF res = Ok
           THEN /\ listings' = CloseAccount(l)
                /\ UNCHANGED balance
           ELSE UNCHANGED <<listings, balance>>
        /\ UNCHANGED <<events, tickets, nullifiers, counters, escrow, minted, now,
                       light_index>>
cancel_listing(seller, l) ==
    LET res == cancel_listing_result(seller, l)
    IN  /\ IF res = Ok
           THEN /\ listings' = CloseAccount(l)
                /\ balance' = [balance EXCEPT ![seller] = @ + ListingRent]
           ELSE UNCHANGED <<listings, balance>>
        /\ UNCHANGED <<events, tickets, nullifiers, counters, escrow, minted, now,
                       light_index>>

close_listing_result_AnyStatus(seller, l) ==
    IF l \notin DOMAIN listings THEN "AccountNotInitialized"
    ELSE IF ~(listings[l].seller = seller) THEN "NotSeller"
    ELSE Ok
close_listing_result(seller, l) ==
    IF l \notin DOMAIN listings THEN "AccountNotInitialized"
    ELSE IF ~(listings[l].seller = seller) THEN "NotSeller"
    ELSE IF ~(listings[l].status = "Cancelled" \/ listings[l].status = "Completed")
         THEN "ListingNotCancelled"
    ELSE Ok

close_listing(seller, l) ==
    LET res == close_listing_result(seller, l)
    IN  /\ IF res = Ok
           THEN /\ listings' = CloseAccount(l)
                /\ balance' = [balance EXCEPT ![seller] = @ + ListingRent]
           ELSE UNCHANGED <<listings, balance>>
        /\ UNCHANGED <<events, tickets, nullifiers, counters, escrow, minted, now,
                       light_index>>

(* The ledger clock advances between transactions *)
Tick(t) ==
    /\ t > now
    /\ now' = t
    /\ UNCHANGED <<ledger, light_index>>

----------------------------------------------------------------------------
(* Initial state: no account exists, every wallet is funded *)
Init ==
    /\ events = <<>>
    /\ tickets = <<>>
    /\ nullifiers = {}
    /\ counters = <<>>
    /\ listings = <<>>
    /\ escrow = [l \in ListingKeys |-> 0]
    /\ balance = [k \in Keys |-> InitBalance]
    /\ minted = <<>>
    /\ now = 0
    /\ light_index \in LightIndexRules

(* Inputs offered to the instructions *)
Organizers == {"k1"}
(* each wallet's own ticket commitment *)
OwnCommitment(k) == Commitment(k, IF k = "k1" THEN "s1" ELSE "s2")
CommitmentInputs == {OwnCommitment(k) : k \in Keys}
ListingInputs == {<<k, OwnCommitment(k)>> : k \in Keys}
PriceInputs == 0..MaxPrice
TicketIds == 1..MaxSupplyInput
EncryptedSecrets == {"e1"}
(* the instants at which transactions run *)
TimePoints == {0, 1} \cup (CLAIM_TIMEOUT_SECONDS..MaxNow)
FarFuture == MaxNow + 1
(* identity_address_tree_info present, identity_account_meta present,      *)
(* current_tickets_minted: the first-mint path and the later-mint path     *)
MintModes == {<<TRUE, FALSE, None>>} \cup
             {<<FALSE, TRUE, Some(n)>> : n \in 0..MaxSupplyInput}

CreateEventStep ==
    \E a \in Organizers, ms \in {1, MaxSupplyInput},
       cap \in {MIN_RESALE_CAP_BPS - 1, MIN_RESALE_CAP_BPS, 15000} :
        create_event(a, ms, cap, MAX_EVENT_NAME_LEN, MAX_EVENT_LOCATION_LEN,
                     MAX_EVENT_DESCRIPTION_LEN, MaxSupplyInput, FarFuture)

UpdateEventStep ==
    \E a \in Keys, e \in Keys, cap \in {None, Some(MIN_RESALE_CAP_BPS), Some(15000),
                                       Some(MAX_RESALE_CAP_BPS + 1)} :
        update_event(a, e, cap)

(* mint_ticket is offered with the parameters of the handler               *)
(* (ticket_mint.rs:38-49); the entry of lib.rs forwards an older, shorter  *)
(* argument list.                                                          *)
MintStep ==
    \E b \in Keys, e \in Organizers, p \in PriceInputs, seed \in Seeds, m \in MintModes :
        mint_ticket(b, e, "V2", OwnCommitment(b), p, seed, m[1], m[2], m[3])

TransferStep ==
    \E k \in Keys, e \in Organizers, id \in TicketIds, p \in 1..MaxPrice, s \in Secrets,
       c \in CommitmentInputs, seed \in Seeds, rp \in {None, Some(MaxPrice + 1)} :
        transfer_ticket(k, e, "V2", id, p, s, c, seed, rp)

CreateListingStep(sellers, ids) ==
    \E k \in sellers, es \in EncryptedSecrets, p \in PriceInputs,
       e \in Organizers, id \in ids :
        create_listing(k, OwnCommitment(k), es, p, e, id)

ClaimListingStep ==
    \E k \in Keys, l \in ListingInputs : claim_listing(k, l, OwnCommitment(k))

CancelClaimStep == \E k \in Keys, l \in ListingInputs : cancel_claim(k, l)

SellerCancelClaimStep ==
    \E k \in Keys, l \in ListingInputs, b \in Keys : seller_cancel_claim(k, l, b)

ReleaseClaimStep == \E k \in Keys, l \in ListingInputs : release_claim(k, l)

CompleteSaleStep ==
    \E k \in Keys, l \in ListingInputs, seed \in Seeds, s \in Secrets :
        complete_sale(k, l, "V2", seed, s)

CancelListingStep == \E k \in Keys, l \in ListingInputs : cancel_listing(k, l)

CloseListingStep == \E k \in Keys, l \in ListingInputs : close_listing(k, l)

ClockStep == \E t \in TimePoints : Tick(t)

(* Marketplace scenario: each wallet lists its own commitment, every       *)
(* listing instruction is signed by every wallet, and the clock advances.  *)
Next ==
    \/ CreateListingStep(Keys, {1})
    \/ ClaimListingStep
    \/ CancelClaimStep
    \/ ReleaseClaimStep
    \/ CompleteSaleStep
    \/ CancelListingStep
    \/ CloseListingStep
    \/ ClockStep

Spec == Init /\ [][Next]_vars

(* Marketplace scenario with seller_cancel_claim.  The handler is in       *)
(* listing_seller_cancel_claim.rs, but the #[program] module of lib.rs has *)
(* no entry for it, so no transaction of the program as it stands runs it; *)
(* the specification lists it among the instructions.  This scenario adds  *)
(* the entry the specification describes to the marketplace scenario.      *)
NextSurface ==
    \/ Next
    \/ SellerCancelClaimStep

SpecSurface == Init /\ [][NextSurface]_vars

(* Ticket scenario: event, mint and transfer, and the marketplace path     *)
(* create_listing, claim_listing, complete_sale.                           *)
NextTicket ==
    \/ CreateEventStep
    \/ UpdateEventStep
    \/ MintStep
    \/ TransferStep
    \/ CreateListingStep(Keys, {1})
    \/ ClaimListingStep
    \/ CompleteSaleStep

SpecTicket == Init /\ [][NextTicket]_vars

(* Sale scenario: tickets change hands through the marketplace only *)
NextSale ==
    \/ CreateEventStep
    \/ MintStep
    \/ CreateListingStep(Keys, TicketIds)
    \/ ClaimListingStep
    \/ CompleteSaleStep

SpecSale == Init /\ [][NextSale]_vars

(* Mint scenario: every wallet creates an event, with a per-person limit   *)
(* of 0, 1 or more and a supply below, at and above the number of ticket   *)
(* addresses, and every wallet mints with every combination of the         *)
(* identity arguments (identity_address_tree_info, identity_account_meta,  *)
(* current_tickets_minted), right or wrong for the state of its counter.   *)
AllMintModes == BOOLEAN \X BOOLEAN \X Option(0..MaxSupplyInput)

CreateEventLimitStep ==
    \E a \in Keys, ms \in {1, MaxSupplyInput + 1}, mtpp \in 0..MaxSupplyInput :
        create_event(a, ms, MIN_RESALE_CAP_BPS, MAX_EVENT_NAME_LEN,
                     MAX_EVENT_LOCATION_LEN, MAX_EVENT_DESCRIPTION_LEN, mtpp,
                     FarFuture)

MintAnyModeStep ==
    \E b \in Keys, e \in Keys, p \in {0, 1}, seed \in Seeds, m \in AllMintModes :
        mint_ticket(b, e, "V2", OwnCommitment(b), p, seed, m[1], m[2], m[3])

NextMint ==
    \/ CreateEventLimitStep
    \/ MintAnyModeStep

SpecMint == Init /\ [][NextMint]_vars

(* Event scenario: every wallet calls create_event with every argument at  *)
(* and beyond its bounds, update_event is signed by every wallet for every *)
(* event account, tickets are minted and the clock advances.               *)
SupplyInputs == {0, 1, MAX_TICKET_SUPPLY, MAX_TICKET_SUPPLY + 1}
CapInputs == {MIN_RESALE_CAP_BPS - 1, MIN_RESALE_CAP_BPS, MAX_RESALE_CAP_BPS,
              MAX_RESALE_CAP_BPS + 1}
NameInputs == {0, MAX_EVENT_NAME_LEN, MAX_EVENT_NAME_LEN + 1}
LocationInputs == {MAX_EVENT_LOCATION_LEN, MAX_EVENT_LOCATION_LEN + 1}
DescriptionInputs == {MAX_EVENT_DESCRIPTION_LEN, MAX_EVENT_DESCRIPTION_LEN + 1}
PerPersonInputs == {0, 1}
TimestampInputs == {now, now + 1}

CreateEventAnyStep ==
    \E a \in Keys, ms \in SupplyInputs, cap \in CapInputs, n \in NameInputs,
       loc \in LocationInputs, d \in DescriptionInputs, mtpp \in PerPersonInputs,
       ts \in TimestampInputs :
        create_event(a, ms, cap, n, loc, d, mtpp, ts)

UpdateEventAnyStep ==
    \E a \in Keys, e \in Keys, cap \in Option(CapInputs) : update_event(a, e, cap)

MintOnceStep ==
    \E e \in Keys, seed \in Seeds :
        mint_ticket("k1", e, "V2", OwnCommitment("k1"), 1, seed, TRUE, FALSE, None)

(* one tick, so that events are created and updated at two instants *)
EventClockStep == Tick(1)

NextEvent ==
    \/ CreateEventAnyStep
    \/ UpdateEventAnyStep
    \/ MintOnceStep
    \/ EventClockStep

SpecEvent == Init /\ [][NextEvent]_vars


(* Listings are offered at one price and for one ticket id.                *)
AnyListings == Keys \X CommitmentInputs

CreateAnyListingStep ==
    \E k \in Keys, c \in CommitmentInputs, es \in EncryptedSecrets,
       p \in {1}, e \in Organizers, id \in {1} :
        create_listing(k, c, es, p, e, id)

ClaimAnyListingStep ==
    \E k \in Keys, l \in AnyListings : claim_listing(k, l, OwnCommitment(k))

CancelAnyClaimStep == \E k \in Keys, l \in AnyListings : cancel_claim(k, l)

CompleteAnySaleStep ==
    \E k \in Keys, l \in AnyListings, seed \in Seeds, sec \in Secrets :
        complete_sale(k, l, "V2", seed, sec)

CloseAnyListingStep == \E k \in Keys, l \in AnyListings : close_listing(k, l)

NextOpen ==
    \/ CreateAnyListingStep
    \/ ClaimAnyListingStep
    \/ CancelAnyClaimStep
    \/ CompleteAnySaleStep
    \/ CloseAnyListingStep

SpecOpen == Init /\ [][NextOpen]_vars

----------------------------------------------------------------------------
(* Notions the properties use *)

(* a ticket record is unspent while the nullifier of its owner's secret    *)
(* does not exist                                                          *)
Unspent(r) == NullifierSeed(SecretOf(r.owner_commitment)) \notin nullifiers

(* the records of the lineage (event, ticket_id) *)
Lineage(e, id) ==
    {a \in DOMAIN tickets : tickets[a].event_config = e /\ tickets[a].ticket_id = id}

ResaleInputs == Option(0..(MaxPrice + 2))

----------------------------------------------------------------------------
(* C1: every event has tickets_minted <= max_supply in every reachable     *)
(* state.                                                                  *)
C1_SupplyNeverExceeded ==
    \A e \in DOMAIN events : events[e].tickets_minted <= events[e].max_supply

(* an event sold out by mint_ticket *)
C1_Witness ==
    \E e \in DOMAIN events :
        /\ events[e].tickets_minted = events[e].max_supply
        /\ events[e].max_supply = MaxSupplyInput
        /\ <<e, MaxSupplyInput>> \in DOMAIN minted

(* C2: once the nullifier of secret s exists, every               *)
(* transfer_ticket presenting s, to any commitment, with any unused address *)
(* seed and any resale price, fails with TicketAlreadyTransferred.          *)
C2_Original ==
    \A s \in Secrets : NullifierSeed(s) \in nullifiers =>
        \A k \in Keys, e \in DOMAIN events, id \in TicketIds, p \in 1..MaxPrice,
           seed \in Seeds \ DOMAIN tickets, rp \in ResaleInputs :
            transfer_ticket_result(k, e, "V2", id, p, s, seed, rp) =
                "TicketAlreadyTransferred"

(* C3: transfer_ticket succeeds only if the state tree holds the ticket     *)
(* record {event_config, current_ticket_id, H(seller.key || seller_secret), *)
(* current_original_price}.                                                *)
C3_Original ==
    \A k \in Keys, e \in DOMAIN events, id \in TicketIds, p \in 1..MaxPrice,
       s \in Secrets, seed \in Seeds, rp \in ResaleInputs :
        transfer_ticket_result(k, e, "V2", id, p, s, seed, rp) = Ok =>
            \E a \in DOMAIN tickets :
                tickets[a] = [event_config |-> e, ticket_id |-> id,
                              owner_commitment |-> Commitment(k, s),
                              original_price |-> p]

(* C4: every ticket record of a minted lineage carries the purchase_price  *)
(* of the mint as its original_price.                                      *)
C4_Original ==
    \A a \in DOMAIN tickets :
        LET key == <<tickets[a].event_config, tickets[a].ticket_id>>
        IN  key \in DOMAIN minted => tickets[a].original_price = minted[key]

(* C5: at most one unspent ticket record per (event, ticket_id) *)
C5_Original ==
    \A e \in Keys, id \in TicketIds :
        Cardinality({a \in Lineage(e, id) : Unspent(tickets[a])}) <= 1

(* C6: the set of nullifiers never shrinks; a successful transfer_ticket   *)
(* or complete_sale adds exactly the nullifier of its seller_secret, which *)
(* did not exist before; no other step adds a nullifier.                   *)
(* The step is a successful transfer_ticket signed with secret s; the     *)
(* remaining inputs of the call are read off the record it wrote.          *)
TransferSucceeds(s) ==
    \E seed \in DOMAIN tickets' \ DOMAIN tickets :
        LET r == tickets'[seed]
        IN  \E k \in Keys, rp \in ResaleInputs :
                /\ transfer_ticket_result(k, r.event_config, "V2", r.ticket_id,
                                          r.original_price, s, seed, rp) = Ok
                /\ transfer_ticket(k, r.event_config, "V2", r.ticket_id,
                                   r.original_price, s, r.owner_commitment,
                                   seed, rp)

(* The step is a successful complete_sale signed with secret s *)
CompleteSaleSucceeds(s) ==
    \E seed \in DOMAIN tickets' \ DOMAIN tickets :
        \E k \in Keys, l \in DOMAIN listings :
            /\ complete_sale_result(k, l, "V2", seed, s) = Ok
            /\ complete_sale(k, l, "V2", seed, s)

C6_Step ==
    /\ nullifiers \subseteq nullifiers'
    /\ \A s \in Secrets :
        (TransferSucceeds(s) \/ CompleteSaleSucceeds(s)) =>
            /\ NullifierSeed(s) \notin nullifiers
            /\ nullifiers' = nullifiers \cup {NullifierSeed(s)}
    /\ nullifiers' # nullifiers =>
        \E s \in Secrets : TransferSucceeds(s) \/ CompleteSaleSucceeds(s)

C6_NullifiersGrowByOne == [][C6_Step]_vars

(* one nullifier made by a sale and one by a transfer *)
C6_Witness ==
    /\ Cardinality(nullifiers) = 2
    /\ \E l \in DOMAIN listings : listings[l].status = "Completed"
    /\ Cardinality(DOMAIN tickets) = 2

----------------------------------------------------------------------------
(* Marketplace properties *)

StatusOf(ls, l) == IF l \in DOMAIN ls THEN ls[l].status ELSE "Closed"

(* C7, the rejections: every (status, instruction) pair off the edges is   *)
(* rejected, for every signer and every argument.                          *)
C7_Rejections ==
    \A l \in DOMAIN listings :
        LET st == listings[l].status
        IN  /\ \A p \in PriceInputs :
                    create_listing_result(l[1], l[2], p) # Ok
            /\ st # "Active" =>
                    /\ \A b \in Keys : claim_listing_result(b, l) # Ok
                    /\ \A k \in Keys : cancel_listing_result(k, l) # Ok
            /\ st # "Claimed" =>
                    /\ \A b \in Keys : cancel_claim_result(b, l) # Ok
                    /\ \A k \in Keys, b \in Keys :
                            seller_cancel_claim_result(k, l, b) # Ok
                    /\ \A k \in Keys : release_claim_result(k, l) # Ok
                    /\ \A k \in Keys, seed \in Seeds, s \in Secrets :
                            complete_sale_result(k, l, "V2", seed, s) # Ok
            /\ (st = "Claimed" /\
                now <= Unwrap(listings[l].claimed_at) + CLAIM_TIMEOUT_SECONDS) =>
                    \A k \in Keys : release_claim_result(k, l) # Ok

(* C7, the edges: the status of a listing changes only along the edges,    *)
(* each by its instruction; cancel_listing closes the account in the same  *)
(* instruction, and nothing leaves Completed or Cancelled but the closing  *)
(* of the account.                                                         *)
C7_Step ==
    \A l \in ListingInputs :
        LET st == StatusOf(listings, l)
            st2 == StatusOf(listings', l)
        IN  st2 # st =>
            \/ /\ st = "Closed" /\ st2 = "Active"
               /\ \E es \in EncryptedSecrets, p \in PriceInputs,
                     e \in Organizers, id \in TicketIds :
                        create_listing(l[1], l[2], es, p, e, id)
            \/ /\ st = "Active" /\ st2 = "Claimed"
               /\ \E b \in Keys, c \in CommitmentInputs : claim_listing(b, l, c)
            \/ /\ st = "Active" /\ st2 = "Closed"
               /\ \E k \in Keys : cancel_listing(k, l)
            \/ /\ st = "Claimed" /\ st2 = "Completed"
               /\ \E k \in Keys, seed \in Seeds, s \in Secrets :
                        complete_sale(k, l, "V2", seed, s)
            \/ /\ st = "Claimed" /\ st2 = "Active"
               /\ \/ \E b \in Keys : cancel_claim(b, l)
                  \/ \E k \in Keys, b \in Keys : seller_cancel_claim(k, l, b)
                  \/ /\ \E k \in Keys : release_claim(k, l)
                     /\ now > Unwrap(listings[l].claimed_at) + CLAIM_TIMEOUT_SECONDS
            \/ /\ st \in {"Completed", "Cancelled"} /\ st2 = "Closed"
               /\ \E k \in Keys : close_listing(k, l)

(* C7: a listing's status changes only along the edges create -> Active,   *)
(* Active -> Claimed, Active -> Cancelled (closed), Claimed -> Completed,  *)
(* Claimed -> Active; every other (status, instruction) pair is rejected;  *)
(* a Completed or Cancelled listing never changes status again.            *)
C7_StatusEdges == []C7_Rejections /\ [][C7_Step]_vars

(* a listing that went Active -> Claimed -> Completed, its seller paid     *)
C7_Witness ==
    \E l \in DOMAIN listings :
        /\ listings[l].status = "Completed"
        /\ listings[l].price_lamports = 1
        /\ balance[l[1]] = InitBalance - ListingRent + 2

(* C8: for every listing the escrow balance equals price_lamports when the *)
(* listing is Claimed and is zero when it is Active, Completed or          *)
(* Cancelled.                                                              *)
C8_Original ==
    \A l \in DOMAIN listings :
        escrow[l] = IF listings[l].status = "Claimed"
                    THEN listings[l].price_lamports ELSE 0

AllAbsent(r) ==
    r.buyer = None /\ r.buyer_commitment = None /\ r.claimed_at = None

AllPresent(r) ==
    IsSome(r.buyer) /\ IsSome(r.buyer_commitment) /\ IsSome(r.claimed_at)

(* C9 as stated: status is Active iff buyer, buyer_commitment and          *)
(* claimed_at are all absent, and Claimed iff all three are present.       *)
C9_Original ==
    \A l \in DOMAIN listings :
        /\ listings[l].status = "Active" <=> AllAbsent(listings[l])
        /\ listings[l].status = "Claimed" <=> AllPresent(listings[l])

(* C9 amended: status is Active iff buyer, buyer_commitment and claimed_at *)
(* are all absent; all three are present iff the status is Claimed or      *)
(* Completed (complete_sale keeps them).                                   *)
C9_BuyerFields ==
    \A l \in DOMAIN listings :
        /\ listings[l].status = "Active" <=> AllAbsent(listings[l])
        /\ listings[l].status \in {"Claimed", "Completed"} <=>
                AllPresent(listings[l])

(* a listing claimed at a later instant by the other wallet and completed  *)
C9_Witness ==
    \E l \in DOMAIN listings :
        /\ listings[l].status = "Completed"
        /\ AllPresent(listings[l])
        /\ listings[l].buyer # Some(l[1])
        /\ Unwrap(listings[l].claimed_at) > 0

(* C10: a deposit made by claim_listing is, after every step, still held   *)
(* in escrow for the same buyer's claim, or refunded in full to that       *)
(* buyer, or paid to the seller by a complete_sale that issued the ticket  *)
(* under that buyer's commitment.                                          *)
C10_Step ==
    \A l \in DOMAIN listings :
        listings[l].status = "Claimed" =>
            LET b == Unwrap(listings[l].buyer)
                p == listings[l].price_lamports
            IN  \/ /\ StatusOf(listings', l) = "Claimed"
                   /\ listings'[l].buyer = listings[l].buyer
                   /\ escrow'[l] = escrow[l]
                   /\ balance'[b] = balance[b]
                \/ /\ StatusOf(listings', l) = "Active"
                   /\ escrow'[l] = escrow[l] - p
                   /\ balance'[b] = balance[b] + p
                \/ /\ StatusOf(listings', l) = "Completed"
                   /\ escrow'[l] = escrow[l] - p
                   /\ \E a \in DOMAIN tickets' \ DOMAIN tickets :
                        tickets'[a].owner_commitment =
                            Unwrap(listings[l].buyer_commitment)
                   /\ \/ balance'[l[1]] = balance[l[1]] + p
                      \/ p = 0

C10_Original == [][C10_Step]_vars

----------------------------------------------------------------------------
(* Round trips and single instructions of the marketplace *)

(* C11: claim_listing by buyer B followed by B's cancel_claim refunds      *)
(* exactly price_lamports to B, leaves the escrow as it was before the     *)
(* claim, and restores Active with the buyer fields cleared.  Stated on    *)
(* the two steps: the claim moves exactly the price from B into the        *)
(* escrow, and the cancel moves exactly the price back.                    *)
C11_Step ==
    \A l \in DOMAIN listings, b \in Keys :
        LET p == listings[l].price_lamports
        IN  /\ (/\ claim_listing_result(b, l) = Ok
                /\ \E c \in CommitmentInputs : claim_listing(b, l, c)) =>
                    /\ balance'[b] = balance[b] - p
                    /\ escrow'[l] = escrow[l] + p
            /\ (cancel_claim_result(b, l) = Ok /\ cancel_claim(b, l)) =>
                    /\ balance'[b] = balance[b] + p
                    /\ escrow'[l] = escrow[l] - p
                    /\ listings'[l].status = "Active"
                    /\ AllAbsent(listings'[l])

C11_Original == [][C11_Step]_vars

(* the records of the ticket a listing offers *)
ListedTicket(l) ==
    {a \in DOMAIN tickets :
        /\ tickets[a].event_config = listings[l].event_config
        /\ tickets[a].ticket_id = listings[l].ticket_id
        /\ tickets[a].owner_commitment = listings[l].ticket_commitment}

(* C12: complete_sale with the correct seller_secret on a claimed listing  *)
(* of an existing ticket creates exactly one new ticket record, under the  *)
(* buyer's commitment, with the listed ticket's ticket_id and              *)
(* original_price, pays the seller exactly price_lamports and sets the     *)
(* listing Completed.                                                      *)
C12_Step ==
    \A l \in DOMAIN listings, k \in Keys, sec \in Secrets, seed \in Seeds :
        (/\ complete_sale_result(k, l, "V2", seed, sec) = Ok
         /\ complete_sale(k, l, "V2", seed, sec)
         /\ ListedTicket(l) # {}) =>
            /\ DOMAIN tickets' \ DOMAIN tickets = {seed}
            /\ tickets'[seed].owner_commitment = Unwrap(listings[l].buyer_commitment)
            /\ tickets'[seed].ticket_id = listings[l].ticket_id
            /\ \E a \in ListedTicket(l) :
                    tickets'[seed].original_price = tickets[a].original_price
            /\ balance' = [balance EXCEPT ![k] = @ + listings[l].price_lamports]
            /\ listings'[l].status = "Completed"

C12_Original == [][C12_Step]_vars

(* C13, the rejections: seller_cancel_claim is rejected when the listing   *)
(* is not Claimed, when the signer is not the seller, or when the refund   *)
(* account is not listing.buyer.                                           *)
C13_Rejections ==
    \A l \in DOMAIN listings, k \in Keys, b \in Keys :
        (\/ listings[l].status # "Claimed"
         \/ k # listings[l].seller
         \/ Some(b) # listings[l].buyer) =>
            seller_cancel_claim_result(k, l, b) # Ok

(* C13, the effect: exactly price_lamports goes from the escrow to the     *)
(* recorded buyer and to no other account, and the listing is Active with  *)
(* the buyer fields cleared.                                               *)
C13_Step ==
    \A l \in DOMAIN listings, k \in Keys, b \in Keys :
        (/\ seller_cancel_claim_result(k, l, b) = Ok
         /\ seller_cancel_claim(k, l, b)) =>
            /\ Some(b) = listings[l].buyer
            /\ balance' = [balance EXCEPT ![b] = @ + listings[l].price_lamports]
            /\ escrow'[l] = escrow[l] - listings[l].price_lamports
            /\ listings'[l].status = "Active"
            /\ AllAbsent(listings'[l])

(* C13: seller_cancel_claim refunds exactly the price to listing.buyer,    *)
(* resets the listing to Active, and is rejected off its preconditions.    *)
C13_Original == []C13_Rejections /\ [][C13_Step]_vars

(* C14, the outcome of release_claim in every state: a non-Claimed listing *)
(* and a non-seller signer are rejected; the seller of a Claimed listing   *)
(* gets ClaimTimeoutNotReached while now <= claimed_at + 86400 and Ok once *)
(* now > claimed_at + 86400.                                               *)
C14_Results ==
    \A l \in DOMAIN listings, k \in Keys :
        LET res == release_claim_result(k, l)
        IN  /\ listings[l].status # "Claimed" => res # Ok
            /\ k # listings[l].seller => res # Ok
            /\ (listings[l].status = "Claimed" /\ k = listings[l].seller) =>
                    res = IF now <= Unwrap(listings[l].claimed_at) + 86400
                          THEN "ClaimTimeoutNotReached" ELSE Ok

(* C14, the effect: a rejected release_claim leaves the listing as it was, *)
(* a successful one returns it to Active with the buyer fields cleared.    *)
C14_Step ==
    \A l \in DOMAIN listings, k \in Keys :
        release_claim(k, l) =>
            IF release_claim_result(k, l) = Ok
            THEN /\ listings'[l].status = "Active"
                 /\ AllAbsent(listings'[l])
            ELSE listings' = listings

(* C14: release_claim fails with ClaimTimeoutNotReached up to and          *)
(* including claimed_at + 86400 and succeeds after it, resetting the       *)
(* listing; a non-seller signer or non-Claimed listing is rejected.        *)
C14_ReleaseTimeout == []C14_Results /\ [][C14_Step]_vars

(* a listing claimed at time 0 and released at time 86401 *)
C14_Witness ==
    \E l \in DOMAIN listings :
        /\ listings[l].status = "Active"
        /\ escrow[l] > 0
        /\ now = 86401

(* C15, the outcome of claim_listing in every state: on a listing that is  *)
(* not Active it is ListingNotActive for every buyer; it is Ok only on an  *)
(* Active listing.                                                         *)
C15_Results ==
    \A l \in DOMAIN listings, b \in Keys :
        /\ listings[l].status # "Active" =>
                claim_listing_result(b, l) = "ListingNotActive"
        /\ claim_listing_result(b, l) = Ok => listings[l].status = "Active"

(* C15, the effect: a successful claim moves exactly price_lamports from   *)
(* the buyer to the escrow and records buyer, buyer_commitment,            *)
(* claimed_at = now and Claimed, changing no other balance and no other    *)
(* field; a rejected claim moves no funds and leaves the recorded buyer.   *)
C15_Step ==
    \A l \in DOMAIN listings, b \in Keys, c \in CommitmentInputs :
        claim_listing(b, l, c) =>
            IF claim_listing_result(b, l) = Ok
            THEN /\ balance' = [balance EXCEPT ![b] = @ - listings[l].price_lamports]
                 /\ escrow' = [escrow EXCEPT ![l] = @ + listings[l].price_lamports]
                 /\ listings'[l] = [listings[l] EXCEPT
                                        !.buyer = Some(b),
                                        !.buyer_commitment = Some(c),
                                        !.claimed_at = Some(now),
                                        !.status = "Claimed"]
            ELSE /\ balance' = balance
                 /\ escrow' = escrow
                 /\ listings' = listings

(* C15: claim_listing succeeds only on an Active listing, atomically       *)
(* escrows the price and records the claim; on any other listing it fails  *)
(* with ListingNotActive and moves nothing, so of two buyers racing for a  *)
(* listing exactly one wins and the loser is unaffected.                   *)
C15_ClaimOnlyActive == []C15_Results /\ [][C15_Step]_vars

(* a listing claimed by k2 while k1 could have paid the price as well *)
C15_Witness ==
    \E l \in DOMAIN listings :
        /\ listings[l].status = "Claimed"
        /\ listings[l].buyer = Some("k2")
        /\ listings[l].price_lamports > 0
        /\ balance["k1"] >= listings[l].price_lamports
        /\ escrow[l] = listings[l].price_lamports

(* C16: complete_sale on a Claimed listing fails with NotTicketOwner       *)
(* whenever H(signer key || seller_secret) differs from                    *)
(* listing.ticket_commitment, and such a call changes nothing: no          *)
(* nullifier, no ticket record, escrow and listing as they were.           *)
C16_WrongSecretRejected ==
    \A l \in DOMAIN listings :
        listings[l].status = "Claimed" =>
            \A k \in Keys, sec \in Secrets :
                Commitment(k, sec) # listings[l].ticket_commitment =>
                    /\ \A seed \in Seeds :
                        complete_sale_result(k, l, "V2", seed, sec) = "NotTicketOwner"
                    /\ ~ENABLED (\E seed \in Seeds :
                                    /\ complete_sale(k, l, "V2", seed, sec)
                                    /\ vars' # vars)

(* a claimed listing of k1 with the deposit of k2 in escrow, nothing sold *)
C16_Witness ==
    \E l \in DOMAIN listings :
        /\ listings[l].status = "Claimed"
        /\ l[1] = "k1"
        /\ listings[l].buyer = Some("k2")
        /\ escrow[l] > 0
        /\ nullifiers = {}
        /\ tickets = <<>>

----------------------------------------------------------------------------
(* One spend per secret, resale cap *)

(* C17: once the nullifier of secret s exists, a complete_sale   *)
(* of a claimed listing with s and a transfer_ticket with s both fail      *)
(* with TicketAlreadyTransferred.                                          *)
C17_Original ==
    \A sec \in Secrets : NullifierSeed(sec) \in nullifiers =>
        /\ \A k \in Keys, l \in DOMAIN listings, seed \in Seeds \ DOMAIN tickets :
            (/\ listings[l].status = "Claimed"
             /\ Commitment(k, sec) = listings[l].ticket_commitment) =>
                complete_sale_result(k, l, "V2", seed, sec) =
                    "TicketAlreadyTransferred"
        /\ \A k \in Keys, e \in DOMAIN events, id \in TicketIds, p \in 1..MaxPrice,
              seed \in Seeds \ DOMAIN tickets, rp \in ResaleInputs :
                transfer_ticket_result(k, e, "V2", id, p, sec, seed, rp) =
                    "TicketAlreadyTransferred"

(* C19: transfer_ticket with resale_price x passes the cap check exactly   *)
(* when x <= floor(original_price * resale_cap_bps / 10000), i.e. when     *)
(* 10000 * x <= original_price * resale_cap_bps, with the event's current  *)
(* resale_cap_bps: at the bound it succeeds, one unit above it fails with  *)
(* ExceedsResaleCap.                                                       *)
C19_CapBoundary ==
    \A e \in DOMAIN events, k \in Keys, id \in TicketIds, p \in 1..MaxPrice,
       sec \in Secrets, seed \in Seeds, x \in 0..(MaxPrice + 2) :
        LET res == transfer_ticket_result(k, e, "V2", id, p, sec, seed, Some(x))
            within == 10000 * x <= p * events[e].resale_cap_bps
        IN  /\ res = "ExceedsResaleCap" <=> ~within
            /\ (/\ within
                /\ NullifierSeed(sec) \notin nullifiers
                /\ seed \notin DOMAIN tickets) => res = Ok
            /\ is_valid_resale_price(events[e], p, x) <=> within

(* an event at 15000 bps after a transfer, where a resale of a ticket of   *)
(* original price 2 at 3 is accepted and at 4 is rejected                  *)
C19_Witness ==
    \E e \in DOMAIN events, sec \in Secrets, seed \in Seeds :
        /\ events[e].resale_cap_bps = 15000
        /\ nullifiers # {}
        /\ transfer_ticket_result("k1", e, "V2", 1, 2, sec, seed, Some(3)) = Ok
        /\ transfer_ticket_result("k1", e, "V2", 1, 2, sec, seed, Some(4)) =
                "ExceedsResaleCap"

(* C20: no marketplace sale of a minted ticket is finalized above the cap: *)
(* the price_lamports of every Completed listing of an existing ticket is  *)
(* at most the ticket's mint price * resale_cap_bps / 10000.               *)
C20_Original ==
    \A l \in DOMAIN listings :
        LET key == <<listings[l].event_config, listings[l].ticket_id>>
        IN  (/\ listings[l].status = "Completed"
             /\ key \in DOMAIN minted
             /\ ListedTicket(l) # {}) =>
                10000 * listings[l].price_lamports <=
                    minted[key] * events[listings[l].event_config].resale_cap_bps

----------------------------------------------------------------------------
(* Minting: supply boundary, ticket ids, identity counter *)

(* the identity counter of buyer b for event e as the state tree holds it *)
CounterOf(e, b) == IF <<e, b>> \in DOMAIN counters THEN counters[<<e, b>>] ELSE 0

(* the identity arguments a client that read the state tree presents *)
RightMode(e, b) ==
    IF <<e, b>> \in DOMAIN counters
    THEN <<FALSE, TRUE, Some(counters[<<e, b>>])>>
    ELSE <<TRUE, FALSE, None>>

(* C21: with a valid purchase price, mint_ticket passes the supply check   *)
(* when tickets_minted = max_supply - 1, and a call that is valid          *)
(* otherwise (free ticket address, the first mint of a buyer who has no    *)
(* identity counter, a per-person limit of at least 1) succeeds and brings *)
(* tickets_minted to max_supply;                                           *)
(* when tickets_minted = max_supply every such call fails with             *)
(* MaxSupplyReached, creates no ticket record and leaves tickets_minted.   *)
C21_SupplyBoundary ==
    \A e \in DOMAIN events, b \in Keys, p \in 1..MaxPrice, seed \in Seeds,
       m \in MintModes :
        LET ev == events[e]
            res == mint_ticket_result(b, e, "V2", p, seed, m[1], m[2], m[3])
        IN  /\ ev.tickets_minted = ev.max_supply - 1 =>
                /\ res # "MaxSupplyReached"
                /\ (/\ seed \notin DOMAIN tickets
                    /\ <<e, b>> \notin DOMAIN counters
                    /\ m = <<TRUE, FALSE, None>>
                    /\ ev.max_tickets_per_person >= 1) =>
                        /\ res = Ok
                        /\ ~ENABLED (/\ mint_ticket(b, e, "V2", OwnCommitment(b), p,
                                                    seed, m[1], m[2], m[3])
                                     /\ events'[e].tickets_minted # ev.max_supply)
            /\ ev.tickets_minted = ev.max_supply =>
                /\ res = "MaxSupplyReached"
                /\ ~ENABLED (/\ mint_ticket(b, e, "V2", OwnCommitment(b), p, seed,
                                            m[1], m[2], m[3])
                             /\ (tickets' # tickets \/ events' # events))

(* an event of supply 1 sold out by its one mint, a ticket address free    *)
(* for the mint that the supply check rejects                              *)
C21_Witness ==
    \E e \in DOMAIN events :
        /\ events[e].max_supply = 1
        /\ events[e].tickets_minted = 1
        /\ <<e, 1>> \in DOMAIN minted
        /\ Seeds \ DOMAIN tickets # {}
        /\ nullifiers = {}

(* C22, the ids: the ids the mints of an event have assigned are exactly   *)
(* 1, 2, ..., tickets_minted, and a ticket record carries each of them.    *)
C22_Ids ==
    \A e \in DOMAIN events :
        /\ {k[2] : k \in {x \in DOMAIN minted : x[1] = e}} =
                1..events[e].tickets_minted
        /\ \A id \in 1..events[e].tickets_minted : Lineage(e, id) # {}

(* C22, the step: a successful mint_ticket creates exactly one ticket      *)
(* record {event, previous tickets_minted + 1, owner, purchase_price},     *)
(* assigns an id no earlier mint of the event has assigned, and raises     *)
(* tickets_minted of that event by 1; tickets_minted changes in no other   *)
(* step.                                                                   *)
C22_Step ==
    /\ DOMAIN events \subseteq DOMAIN events'
    /\ (\E e \in DOMAIN events :
            events'[e].tickets_minted # events[e].tickets_minted) =>
        \E b \in Keys, e \in DOMAIN events, c \in CommitmentInputs,
           p \in PriceInputs, seed \in Seeds, m \in MintModes :
            /\ mint_ticket_result(b, e, "V2", p, seed, m[1], m[2], m[3]) = Ok
            /\ mint_ticket(b, e, "V2", c, p, seed, m[1], m[2], m[3])
    /\ tickets' # tickets =>
        \A b \in Keys, e \in DOMAIN events, c \in CommitmentInputs,
           p \in PriceInputs, seed \in Seeds, m \in MintModes :
            (/\ mint_ticket_result(b, e, "V2", p, seed, m[1], m[2], m[3]) = Ok
             /\ mint_ticket(b, e, "V2", c, p, seed, m[1], m[2], m[3])) =>
                LET id == events[e].tickets_minted + 1
                IN  /\ seed \notin DOMAIN tickets
                    /\ tickets' = (seed :> [event_config |-> e,
                                            ticket_id |-> id,
                                            owner_commitment |-> c,
                                            original_price |-> p]) @@ tickets
                    /\ events' = [events EXCEPT ![e].tickets_minted = id]
                    /\ <<e, id>> \notin DOMAIN minted
                    /\ DOMAIN minted' = DOMAIN minted \cup {<<e, id>>}

(* C22: every successful mint_ticket creates one ticket record with the    *)
(* next id, the supplied owner commitment and the purchase price, and      *)
(* raises tickets_minted by 1, so that the ids assigned are 1, 2, ...,     *)
(* tickets_minted without repetition; no other instruction changes         *)
(* tickets_minted.                                                         *)
C22_MintAssignsNextId == []C22_Ids /\ [][C22_Step]_vars

(* two mints of one event, by different buyers at different prices *)
C22_Witness ==
    \E e \in DOMAIN events :
        /\ events[e].tickets_minted = 2
        /\ <<e, 1>> \in DOMAIN minted /\ <<e, 2>> \in DOMAIN minted
        /\ minted[<<e, 1>>] # minted[<<e, 2>>]
        /\ <<e, "k1">> \in DOMAIN counters /\ <<e, "k2">> \in DOMAIN counters
        /\ \A a \in DOMAIN tickets : tickets[a].original_price = minted[<<e, tickets[a].ticket_id>>]

(* the tickets of event e minted by buyer b: in the mint scenario every    *)
(* buyer mints to its own commitment and no record is made but by a mint   *)
MintedBy(e, b) ==
    {a \in DOMAIN tickets : /\ tickets[a].event_config = e
                            /\ tickets[a].owner_commitment = OwnCommitment(b)}

(* C23: for every event and buyer the identity counter is at most          *)
(* max_tickets_per_person and equals the number of the buyer's successful  *)
(* mints for the event; with a valid price and supply left, a mint that    *)
(* presents a counter equal to the maximum, and a first mint for an event  *)
(* whose maximum is 0, fail with MaxTicketsPerPersonReached; a mint        *)
(* succeeds only with the identity arguments that match the state of the   *)
(* counter (current_tickets_minted is read on the later-mint path only),   *)
(* so the first-mint path fails once the counter exists.                   *)
C23_IdentityCounter ==
    /\ \A k \in DOMAIN counters : k[1] \in DOMAIN events /\ counters[k] >= 1
    /\ \A e \in DOMAIN events, b \in Keys :
        LET ev == events[e]
        IN  /\ CounterOf(e, b) <= ev.max_tickets_per_person
            /\ CounterOf(e, b) = Cardinality(MintedBy(e, b))
            /\ \A p \in 1..MaxPrice, seed \in Seeds, m \in AllMintModes :
                LET res == mint_ticket_result(b, e, "V2", p, seed, m[1], m[2], m[3])
                IN  /\ res = Ok =>
                        /\ m[1] = RightMode(e, b)[1]
                        /\ m[2] = RightMode(e, b)[2]
                        /\ m[2] => m[3] = RightMode(e, b)[3]
                    /\ (/\ can_mint(ev, 1)
                        /\ m[2]
                        /\ m[3] = Some(ev.max_tickets_per_person)) =>
                            res = "MaxTicketsPerPersonReached"
                    /\ (can_mint(ev, 1) /\ ~m[2] /\ ev.max_tickets_per_person = 0) =>
                            res = "MaxTicketsPerPersonReached"
                    /\ (<<e, b>> \in DOMAIN counters /\ ~m[2]) => res # Ok

(* a buyer who minted twice, through the first-mint and then the           *)
(* later-mint path, and stands at the limit of 2 of an event with supply   *)
(* left, where the mint presenting the counter is refused; the other       *)
(* wallet's event allows no ticket per person                              *)
C23_Witness ==
    /\ \E e \in DOMAIN events :
        /\ events[e].max_tickets_per_person = 2
        /\ CounterOf(e, "k2") = 2
        /\ Cardinality(MintedBy(e, "k2")) = 2
        /\ can_mint(events[e], 1)
        /\ \E seed \in Seeds :
            mint_ticket_result("k2", e, "V2", 1, seed, FALSE, TRUE, Some(2)) =
                "MaxTicketsPerPersonReached"
    /\ \E e \in DOMAIN events :
        /\ events[e].max_tickets_per_person = 0
        /\ can_mint(events[e], 1)

----------------------------------------------------------------------------
(* Event registry properties *)

CreateEventErrors ==
    {"InvalidTicketSupply", "TicketSupplyTooLarge", "ResaleCapTooLow",
     "ResaleCapTooHigh", "EventNameEmpty", "EventNameTooLong",
     "EventLocationTooLong", "EventDescriptionTooLong", "EventTimestampInPast"}

(* C24, the outcome: for a signer whose event account does not exist yet   *)
(* and who can pay its rent (the two conditions of the account's `init`),  *)
(* create_event returns Ok exactly when 1 <= max_supply <= 1000000,        *)
(* 10000 <= resale_cap_bps <= 100000, 1 <= name length <= 64, location     *)
(* length <= 64, description length <= 200 and event_timestamp > now;      *)
(* otherwise it returns one of the nine errors, and the error returned     *)
(* names a condition that is violated.                                     *)
C24_Results ==
    \A a \in {k \in Keys \ DOMAIN events : balance[k] >= EventRent},
       ms \in SupplyInputs, cap \in CapInputs,
       n \in NameInputs, loc \in LocationInputs, d \in DescriptionInputs,
       ts \in TimestampInputs :
        LET res == create_event_result(a, ms, cap, n, loc, d, ts)
        IN  /\ res = Ok <=> (/\ 1 <= ms /\ ms <= 1000000
                             /\ 10000 <= cap /\ cap <= 100000
                             /\ 1 <= n /\ n <= 64
                             /\ loc <= 64
                             /\ d <= 200
                             /\ ts > now)
            /\ res \in {Ok} \cup CreateEventErrors
            /\ res = "InvalidTicketSupply" => ms = 0
            /\ res = "TicketSupplyTooLarge" => ms > 1000000
            /\ res = "ResaleCapTooLow" => cap < 10000
            /\ res = "ResaleCapTooHigh" => cap > 100000
            /\ res = "EventNameEmpty" => n = 0
            /\ res = "EventNameTooLong" => n > 64
            /\ res = "EventLocationTooLong" => loc > 64
            /\ res = "EventDescriptionTooLong" => d > 200
            /\ res = "EventTimestampInPast" => ts <= now
            /\ res # Ok =>
                ~ENABLED (\E mtpp \in PerPersonInputs :
                            /\ create_event(a, ms, cap, n, loc, d, mtpp, ts)
                            /\ vars' # vars)

(* C24, the effect: an event comes into existence only by a successful     *)
(* create_event of its signer, and is stored with the signer as authority, *)
(* the parameters of the call and tickets_minted = 0.                      *)
C24_Step ==
    \A a \in DOMAIN events' \ DOMAIN events :
        LET r == events'[a]
        IN  /\ r.authority = a
            /\ r.tickets_minted = 0
            /\ create_event_result(a, r.max_supply, r.resale_cap_bps, r.event_name,
                                   r.event_location, r.event_description,
                                   r.event_timestamp) = Ok
            /\ create_event(a, r.max_supply, r.resale_cap_bps, r.event_name,
                            r.event_location, r.event_description,
                            r.max_tickets_per_person, r.event_timestamp)
            /\ r.max_supply \in SupplyInputs /\ r.resale_cap_bps \in CapInputs
            /\ r.event_timestamp > now
            /\ \A e \in DOMAIN events : events'[e] = events[e]

(* C24: create_event succeeds exactly on valid arguments, storing the      *)
(* event with the signer as authority and tickets_minted = 0, and fails    *)
(* with the error of a violated bound otherwise, creating no event.        *)
C24_CreateEventValidation == []C24_Results /\ [][C24_Step]_vars

(* events at both ends of the supply and cap ranges, one created at        *)
(* instant 1 by the other wallet                                           *)
C24_Witness ==
    /\ DOMAIN events = Keys
    /\ events["k1"].max_supply = 1
    /\ events["k1"].resale_cap_bps = MIN_RESALE_CAP_BPS
    /\ events["k2"].max_supply = MAX_TICKET_SUPPLY
    /\ events["k2"].resale_cap_bps = MAX_RESALE_CAP_BPS
    /\ events["k2"].event_timestamp = 2
    /\ events["k2"].tickets_minted = 0
    /\ events["k2"].updated_at = 0

(* C25, the outcome: update_event returns Ok exactly when the signer is    *)
(* the event's authority and the cap, if supplied, is within               *)
(* [10000, 100000]; a rejected call changes nothing.                       *)
C25_Results ==
    \A a \in Keys, e \in DOMAIN events, cap \in Option(CapInputs) :
        LET res == update_event_result(a, e, cap)
            inBounds == cap = None \/ (10000 <= Unwrap(cap) /\ Unwrap(cap) <= 100000)
        IN  /\ res = Ok <=> (a = events[e].authority /\ inBounds)
            /\ res # Ok => ~ENABLED (update_event(a, e, cap) /\ vars' # vars)

(* C25, the effect: a successful update_event sets resale_cap_bps to the   *)
(* supplied value, if any, and updated_at to the current time, and leaves  *)
(* every other field of the event, every other event and every ticket,     *)
(* listing, escrow and balance as they were.                               *)
C25_Step ==
    events' # events =>
        \A a \in Keys, e \in DOMAIN events, cap \in Option(CapInputs) :
            (update_event_result(a, e, cap) = Ok /\ update_event(a, e, cap)) =>
                /\ events'[e] = [events[e] EXCEPT
                        !.resale_cap_bps = IF cap = None THEN @ ELSE Unwrap(cap),
                        !.updated_at = now]
                /\ events'[e].authority = events[e].authority
                /\ events'[e].max_supply = events[e].max_supply
                /\ events'[e].tickets_minted = events[e].tickets_minted
                /\ events'[e].max_tickets_per_person = events[e].max_tickets_per_person
                /\ events'[e].event_timestamp = events[e].event_timestamp
                /\ DOMAIN events' = DOMAIN events
                /\ \A o \in DOMAIN events \ {e} : events'[o] = events[o]
                /\ UNCHANGED <<tickets, nullifiers, counters, listings, escrow,
                               balance, minted>>

(* C25: update_event succeeds only for the event's authority and a cap in  *)
(* bounds, changes only resale_cap_bps and updated_at, and changes nothing *)
(* when it fails.                                                          *)
C25_UpdateEventFrame == []C25_Results /\ [][C25_Step]_vars

(* an event with a ticket minted whose cap was raised at instant 1, while  *)
(* the other wallet has an event of its own                                *)
C25_Witness ==
    /\ DOMAIN events = Keys
    /\ \E e \in DOMAIN events :
        /\ events[e].tickets_minted = 1
        /\ events[e].updated_at = 1
        /\ events[e].event_timestamp = 1
        /\ events[e].resale_cap_bps = MAX_RESALE_CAP_BPS
        /\ \E a \in DOMAIN tickets : tickets[a].event_config = e

(* C26, the state: every event has 10000 <= resale_cap_bps <= 100000 and   *)
(* 1 <= max_supply <= 1000000, and its authority is the wallet whose       *)
(* create_event made the account (the account is derived from that key).   *)
C26_Bounds ==
    \A e \in DOMAIN events :
        /\ 10000 <= events[e].resale_cap_bps /\ events[e].resale_cap_bps <= 100000
        /\ 1 <= events[e].max_supply /\ events[e].max_supply <= 1000000
        /\ events[e].authority = e

(* C26, the step: an event is never removed and its authority never        *)
(* changes.                                                                *)
C26_Step ==
    \A e \in DOMAIN events :
        /\ e \in DOMAIN events'
        /\ events'[e].authority = events[e].authority

(* C26: in every reachable state every event's resale_cap_bps and          *)
(* max_supply are within their bounds and its authority is the identity    *)
(* that created it, never changing after creation.                         *)
C26_EventInvariants == []C26_Bounds /\ [][C26_Step]_vars

(* events of both wallets, one of the largest supply whose cap an update   *)
(* moved from the lower to the upper bound                                 *)
C26_Witness ==
    /\ DOMAIN events = Keys
    /\ events["k1"].max_supply = MAX_TICKET_SUPPLY
    /\ events["k1"].resale_cap_bps = MAX_RESALE_CAP_BPS
    /\ events["k1"].updated_at = 1
    /\ events["k1"].event_timestamp = 1
    /\ events["k2"].resale_cap_bps = MIN_RESALE_CAP_BPS
    /\ events["k2"].updated_at = 1
    /\ events["k2"].event_timestamp = 2

----------------------------------------------------------------------------
(* Cancelling and closing listings *)

(* C27, the outcome: the seller's cancel_listing of an Active listing is   *)
(* accepted.                                                               *)
C27_Results ==
    \A l \in DOMAIN listings :
        listings[l].status = "Active" =>
            cancel_listing_result(listings[l].seller, l) = Ok

(* C27, the steps: a successful create_listing takes the storage deposit   *)
(* from the seller and a successful cancel_listing closes the listing      *)
(* account (the Cancelled listing is gone with it) and returns the deposit *)
(* in full to the seller; both leave every ticket record, nullifier, event *)
(* and escrow as they were, so create_listing followed by cancel_listing   *)
(* leaves them exactly as before the create_listing.                       *)
C27_Step ==
    listings' # listings =>
        \A k \in Keys, l \in ListingInputs :
            /\ (\E es \in EncryptedSecrets, p \in PriceInputs, e \in Organizers,
                   id \in TicketIds :
                    /\ l[1] = k
                    /\ create_listing_result(k, l[2], p) = Ok
                    /\ create_listing(k, l[2], es, p, e, id)) =>
                        /\ StatusOf(listings', l) = "Active"
                        /\ balance' = [balance EXCEPT ![k] = @ - ListingRent]
                        /\ UNCHANGED <<tickets, nullifiers, events, escrow>>
            /\ (cancel_listing_result(k, l) = Ok /\ cancel_listing(k, l)) =>
                        /\ listings[l].status = "Active"
                        /\ k = listings[l].seller
                        /\ listings' = [o \in DOMAIN listings \ {l} |-> listings[o]]
                        /\ balance' = [balance EXCEPT ![k] = @ + ListingRent]
                        /\ UNCHANGED <<tickets, nullifiers, events, escrow>>

(* C27: cancel_listing by the seller on an Active listing closes the       *)
(* listing account and returns the storage deposit in full; create_listing *)
(* then cancel_listing leaves tickets, nullifiers, events and escrow as    *)
(* they were.                                                              *)
C27_CancelListing == []C27_Results /\ [][C27_Step]_vars

(* a listing cancelled after a claim on it was released: the account is    *)
(* closed, the seller has the deposit back, the escrow is as it was        *)
C27_Witness ==
    /\ listings = <<>>
    /\ \E l \in ListingInputs :
        /\ escrow[l] > 0
        /\ balance[l[1]] = InitBalance

(* C28: cancel_listing on a listing that is not Active is rejected with    *)
(* ListingNotActive, whoever signs, and on an Active listing with          *)
(* NotSeller when the signer is not listing.seller; a rejected call leaves *)
(* the listing account open and the listing and escrow unchanged.          *)
C28_CancelListingRejected ==
    \A l \in DOMAIN listings, k \in Keys :
        LET res == cancel_listing_result(k, l)
        IN  /\ listings[l].status # "Active" => res = "ListingNotActive"
            /\ (listings[l].status = "Active" /\ k # listings[l].seller) =>
                    res = "NotSeller"
            /\ res # Ok => ~ENABLED (cancel_listing(k, l) /\ vars' # vars)

(* a listing of k2 claimed by k1 at instant 1, the deposit in escrow *)
C28_Witness ==
    \E l \in DOMAIN listings :
        /\ listings[l].status = "Claimed"
        /\ listings[l].seller = "k2"
        /\ listings[l].buyer = Some("k1")
        /\ listings[l].claimed_at = Some(1)
        /\ escrow[l] = listings[l].price_lamports

(* C29: cancel_claim returns Ok exactly on a Claimed listing signed by the *)
(* recorded buyer; on a listing that is not Claimed it is rejected with    *)
(* ListingNotClaimed, on a Claimed listing signed by anyone else with      *)
(* NotBuyer, and a rejected call leaves the escrow and the listing         *)
(* unchanged.                                                              *)
C29_CancelClaimRejected ==
    \A l \in DOMAIN listings, k \in Keys :
        LET res == cancel_claim_result(k, l)
        IN  /\ res = Ok <=> (/\ listings[l].status = "Claimed"
                             /\ listings[l].buyer = Some(k))
            /\ listings[l].status # "Claimed" => res = "ListingNotClaimed"
            /\ (listings[l].status = "Claimed" /\ listings[l].buyer # Some(k)) =>
                    res = "NotBuyer"
            /\ res # Ok => ~ENABLED (cancel_claim(k, l) /\ vars' # vars)

(* a listing claimed a second time after a release, the escrow holding     *)
(* both deposits, which the seller is not allowed to collect as a buyer    *)
C29_Witness ==
    \E l \in DOMAIN listings :
        /\ listings[l].status = "Claimed"
        /\ listings[l].buyer # Some(listings[l].seller)
        /\ escrow[l] > listings[l].price_lamports
        /\ cancel_claim_result(listings[l].seller, l) = "NotBuyer"

(* C30, the outcome: close_listing returns Ok exactly for the seller of a  *)
(* Cancelled or Completed listing, NotSeller for every other signer and    *)
(* ListingNotCancelled for the seller of an Active or Claimed listing; on  *)
(* a closed listing it fails and changes nothing.                          *)
C30_Results ==
    /\ \A l \in DOMAIN listings, k \in Keys :
        LET res == close_listing_result(k, l)
        IN  /\ res = Ok <=> (/\ k = listings[l].seller
                             /\ listings[l].status \in {"Cancelled", "Completed"})
            /\ k # listings[l].seller => res = "NotSeller"
            /\ (/\ k = listings[l].seller
                /\ listings[l].status \notin {"Cancelled", "Completed"}) =>
                    res = "ListingNotCancelled"
    /\ \A l \in ListingInputs \ DOMAIN listings, k \in Keys :
        /\ close_listing_result(k, l) # Ok
        /\ ~ENABLED (close_listing(k, l) /\ vars' # vars)

(* C30, the step: a successful close_listing closes the listing account,   *)
(* returns the storage deposit to the seller and changes nothing else; the *)
(* listing being closed, a second close_listing finds no account.          *)
C30_Step ==
    listings' # listings =>
        \A l \in DOMAIN listings, k \in Keys :
            (close_listing_result(k, l) = Ok /\ close_listing(k, l)) =>
                /\ listings' = [o \in DOMAIN listings \ {l} |-> listings[o]]
                /\ l \notin DOMAIN listings'
                /\ balance' = [balance EXCEPT ![k] = @ + ListingRent]
                /\ UNCHANGED <<events, tickets, nullifiers, counters, escrow, minted>>

(* C30: close_listing succeeds only for the seller and only on a Cancelled *)
(* or Completed listing, closes the account and returns the deposit, and a *)
(* second application leaves the state the first one produced.             *)
C30_CloseListing == []C30_Results /\ [][C30_Step]_vars

(* a sold listing closed by its seller, who holds the price and the        *)
(* deposit                                                                 *)
C30_Witness ==
    /\ listings = <<>>
    /\ tickets # <<>>
    /\ \E k \in Keys : balance[k] > InitBalance

----------------------------------------------------------------------------
(* Transfers and sales against the records of the state tree *)

(* the unspent ticket records held under the commitment H(k || sec) *)
OwnedBy(k, sec) ==
    {a \in DOMAIN tickets : tickets[a].owner_commitment = Commitment(k, sec)}

(* C31: a successful transfer_ticket by the holder of a ticket record      *)
(* creates exactly one new ticket record, at the address of the seed,      *)
(* holding new_owner_commitment and the event, ticket_id and               *)
(* original_price of the spent record; it changes no existing record,      *)
(* spends the seller's secret and leaves events, listings and balances     *)
(* unchanged.                                                              *)
C31_Step ==
    \A seed \in DOMAIN tickets' \ DOMAIN tickets, k \in Keys, sec \in Secrets,
       rp \in ResaleInputs :
        LET r == tickets'[seed]
        IN  (/\ OwnedBy(k, sec) # {}
             /\ transfer_ticket_result(k, r.event_config, "V2", r.ticket_id,
                                       r.original_price, sec, seed, rp) = Ok
             /\ transfer_ticket(k, r.event_config, "V2", r.ticket_id,
                                r.original_price, sec, r.owner_commitment,
                                seed, rp)) =>
                /\ DOMAIN tickets' = DOMAIN tickets \cup {seed}
                /\ \A a \in DOMAIN tickets : tickets'[a] = tickets[a]
                /\ \E a \in OwnedBy(k, sec) :
                        /\ r.event_config = tickets[a].event_config
                        /\ r.ticket_id = tickets[a].ticket_id
                        /\ r.original_price = tickets[a].original_price
                /\ NullifierSeed(sec) \in nullifiers'
                /\ UNCHANGED <<events, listings, balance>>

C31_Original == [][C31_Step]_vars

(* C32: every successful complete_sale is signed by the account recorded   *)
(* as listing.seller.                                                      *)
C32_Original ==
    \A l \in DOMAIN listings, k \in Keys, seed \in Seeds, sec \in Secrets :
        complete_sale_result(k, l, "V2", seed, sec) = Ok => k = listings[l].seller

(* C33: complete_sale succeeds only if the state tree holds a ticket       *)
(* record with owner_commitment = listing.ticket_commitment, event =       *)
(* listing.event_config and ticket_id = listing.ticket_id, so that every   *)
(* ticket record belongs to a minted ticket.                               *)
C33_Original ==
    /\ \A l \in DOMAIN listings, k \in Keys, seed \in Seeds, sec \in Secrets :
        complete_sale_result(k, l, "V2", seed, sec) = Ok => ListedTicket(l) # {}
    /\ \A a \in DOMAIN tickets :
        <<tickets[a].event_config, tickets[a].ticket_id>> \in DOMAIN minted

(* C34: a listing account is never closed while its escrow holds a         *)
(* non-zero balance: every closed listing's escrow is empty.               *)
C34_Original ==
    \A l \in ListingKeys \ DOMAIN listings : escrow[l] = 0

(* the nullifier of the secret behind a listing's ticket commitment exists *)
SecretSpent(l) ==
    NullifierSeed(SecretOf(listings[l].ticket_commitment)) \in nullifiers

(* C35, the state: on a listing that is not Completed and whose ticket     *)
(* secret is spent, every complete_sale is rejected; if it is Claimed, the *)
(* escrow holds at least the deposit, the buyer's cancel_claim and the     *)
(* seller's seller_cancel_claim are accepted, and cancel_claim pays the    *)
(* buyer at least price_lamports.                                          *)
C35_State ==
    \A l \in DOMAIN listings :
        (SecretSpent(l) /\ listings[l].status # "Completed") =>
            /\ \A k \in Keys, seed \in Seeds, sec \in Secrets :
                complete_sale_result(k, l, "V2", seed, sec) # Ok
            /\ listings[l].status = "Claimed" =>
                LET b == Unwrap(listings[l].buyer)
                    p == listings[l].price_lamports
                IN  /\ escrow[l] >= p
                    /\ cancel_claim_result(b, l) = Ok
                    /\ seller_cancel_claim_result(listings[l].seller, l, b) = Ok
                    /\ ENABLED (/\ cancel_claim(b, l)
                                /\ balance'[b] >= balance[b] + p
                                /\ listings'[l].status = "Active")
                    /\ ~ENABLED (/\ cancel_claim(b, l)
                                 /\ balance'[b] < balance[b] + p)

(* C35, the step: such a listing does not become Completed *)
C35_Step ==
    \A l \in DOMAIN listings :
        (SecretSpent(l) /\ listings[l].status # "Completed") =>
            StatusOf(listings', l) # "Completed"

(* C35: once the nullifier of a listing's ticket secret exists, the        *)
(* listing never reaches Completed, and a buyer who has claimed it can     *)
(* recover the full deposit through cancel_claim or the seller's           *)
(* seller_cancel_claim.                                                    *)
C35_SpentListingNeverCompletes == []C35_State /\ [][C35_Step]_vars

(* the ticket of H(k1 || s1) transferred directly, a listing of the same   *)
(* commitment claimed by k2, whose deposit is in the escrow                *)
C35_Witness ==
    /\ NullifierSeed("s1") \in nullifiers
    /\ \A l \in DOMAIN listings : listings[l].status # "Completed"
    /\ \E l \in DOMAIN listings :
        /\ listings[l].ticket_commitment = Commitment("k1", "s1")
        /\ listings[l].status = "Claimed"
        /\ listings[l].buyer = Some("k2")
        /\ escrow[l] = listings[l].price_lamports
        /\ escrow[l] > 0

(* the fields create_listing writes and no later instruction should touch *)
ListingTerms(r) ==
    <<r.seller, r.ticket_commitment, r.encrypted_secret, r.price_lamports, r.event_config, r.ticket_id>>

(* C36 as stated: while a listing account exists its seller,               *)
(* ticket_commitment, encrypted_secret, price_lamports, event_config and   *)
(* ticket_id do not change, and the step that completes it pays out        *)
(* exactly price_lamports, the amount the buyer deposited at claim time.   *)
C36_Step ==
    \A l \in DOMAIN listings \cap DOMAIN listings' :
        /\ ListingTerms(listings'[l]) = ListingTerms(listings[l])
        /\ (listings[l].status = "Claimed" /\ listings'[l].status = "Completed") =>
            /\ escrow[l] - escrow'[l] = listings[l].price_lamports
            /\ \E k \in Keys :
                balance' = [balance EXCEPT ![k] = @ + listings[l].price_lamports]

C36_Original == [][C36_Step]_vars

(* the sum of f over the finite set S *)
RECURSIVE SumOver(_, _)
SumOver(f, S) == IF S = {} THEN 0 ELSE LET x == CHOOSE y \in S : TRUE IN f[x] + SumOver(f, S \ {x})

(* lamports held by the parties and the escrows, plus the storage deposit  *)
(* held by every open listing account and every event account              *)
TotalFunds ==
    SumOver(balance, Keys) + SumOver(escrow, ListingKeys) + ListingRent * Cardinality(DOMAIN listings) + EventRent * Cardinality(DOMAIN events)

(* C37: the marketplace instructions only move lamports between the        *)
(* parties and the escrows: the total of all party and escrow balances,    *)
(* storage deposits of open listings counted apart, is constant, and no    *)
(* balance, escrow or party, is ever drawn below zero.                     *)
C37_FundsConserved ==
    /\ TotalFunds = InitBalance * Cardinality(Keys)
    /\ \A k \in Keys : balance[k] >= 0
    /\ \A l \in ListingKeys : escrow[l] >= 0

(* a completed sale between two parties: the buyer is down by the price,   *)
(* the seller up by it (less the storage deposit), the escrow is empty     *)
C37_Witness ==
    \E l \in DOMAIN listings, b \in Keys :
        LET r == listings[l]
        IN  /\ r.status = "Completed"
            /\ b # r.seller
            /\ escrow[l] = 0
            /\ balance[b] = InitBalance - r.price_lamports
            /\ balance[r.seller] = InitBalance - ListingRent + r.price_lamports

(* C38, the rejection: for an authority that has an event, create_event is *)
(* rejected with AccountAlreadyInUse whatever its arguments, and changes   *)
(* nothing.                                                                *)
C38_State ==
    \A a \in DOMAIN events, ms \in SupplyInputs, cap \in CapInputs,
       n \in NameInputs, loc \in LocationInputs, d \in DescriptionInputs,
       ts \in TimestampInputs :
        /\ create_event_result(a, ms, cap, n, loc, d, ts) = "AccountAlreadyInUse"
        /\ ~ENABLED (\E mtpp \in PerPersonInputs :
                        /\ create_event(a, ms, cap, n, loc, d, mtpp, ts)
                        /\ vars' # vars)

(* C38, the step: an event stays, keyed by its authority, with the same    *)
(* authority and max_supply, and its tickets_minted never goes down.       *)
C38_Step ==
    \A a \in DOMAIN events :
        /\ a \in DOMAIN events'
        /\ events'[a].authority = events[a].authority
        /\ events'[a].max_supply = events[a].max_supply
        /\ events'[a].tickets_minted >= events[a].tickets_minted

(* C38: an authority has at most one event: a second create_event by the   *)
(* same authority fails and leaves the event, its tickets_minted and       *)
(* max_supply included, unchanged; an event is never reset or destroyed.   *)
C38_OneEventPerAuthority == []C38_State /\ [][C38_Step]_vars

(* an event that has minted, whose authority calls create_event again with *)
(* arguments that pass every check of the handler                          *)
C38_Witness ==
    \E a \in DOMAIN events :
        /\ events[a].tickets_minted > 0
        /\ create_event_result(a, 1, MIN_RESALE_CAP_BPS, 1, 0, 0, now + 1) = "AccountAlreadyInUse"

(* C39: whenever a listing is Claimed, buyer, buyer_commitment and         *)
(* claimed_at are all present; so on a Claimed listing neither             *)
(* complete_sale nor release_claim returns ListingNotClaimed, whoever      *)
(* signs and whatever the arguments, and a complete_sale that succeeds     *)
(* finds a buyer to unwrap.                                                *)
C39_ClaimedFieldsPresent ==
    \A l \in DOMAIN listings :
        listings[l].status = "Claimed" =>
            /\ AllPresent(listings[l])
            /\ \A k \in Keys :
                release_claim_result(k, l) # "ListingNotClaimed"
            /\ \A k \in Keys, tree \in AddressTrees, seed \in Seeds, sec \in Secrets :
                LET res == complete_sale_result(k, l, tree, seed, sec)
                IN  /\ res # "ListingNotClaimed"
                    /\ res = Ok => IsSome(listings[l].buyer)

(* a Claimed listing past its timeout: release_claim by the seller and     *)
(* complete_sale with the seller's secret both pass their fallback lines   *)
C39_Witness ==
    \E l \in DOMAIN listings :
        /\ listings[l].status = "Claimed"
        /\ release_claim_result(listings[l].seller, l) = Ok
        /\ \E seed \in Seeds, sec \in Secrets :
            complete_sale_result(listings[l].seller, l, "V2", seed, sec) = Ok

====
